---------------------------- MODULE Spec2Model ----------------------------
(***************************************************************************)
(* A model of the deterministic core of the Legal-bot repository:          *)
(*   - risk_engine.py      ProductionRiskEngine (rule table, weights,      *)
(*                         evaluate_clause with its on-disk JSON cache,    *)
(*                         evaluate_contract)                              *)
(*   - clause_extractor.py ProductionClauseExtractor (numbered strategy,   *)
(*                         paragraph fallback)                             *)
(* and of the code around it as far as it is stated about:                 *)
(*   - orchestrator.py     analyze_document and its audit session          *)
(*   - llm_reasoner.py     analyze_clause and its file cache               *)
(*   - document_processor.py process_document and its file cache           *)
(*                                                                         *)
(* Conventions.                                                            *)
(*   Text is a sequence of one-character strings, so that str.lower, the   *)
(*   substring test `k in text`, str.strip and the regular expression are  *)
(*   modelled character by character.                                      *)
(*   Scores are integers counting hundredths (6600 stands for 66.0): every *)
(*   base score is an integer and every weight has one decimal, so every   *)
(*   clause score is exact in hundredths.                                  *)
(*   hashlib.md5 is modelled as injective: a digest is represented by the  *)
(*   string that was hashed.                                               *)
(***************************************************************************)
EXTENDS Integers, Sequences, FiniteSets, TLC

VARIABLES
    contract_type,  \* the contract type supplied for the document (orchestrator.py:71)
    clauses,        \* the clause records of the document under analysis
    cache,          \* the files of cache/risk: cache key -> JSON text
    last,           \* the most recent engine call: its input and its outcome
    repeat,         \* the outcome of the call before, when it had the same input
    ex_text,        \* extract_clauses: the input text
    ex_out,         \* extract_clauses: what the call returned
    running,        \* the evaluate_clause calls in progress side by side, by caller
    engine,         \* the engine object's fields: self.patterns and self.weights
    frame,          \* evaluate_contract followed line by line: its position and locals
    session,        \* analyze_document: its position, its audit session, what it returned
    reasoner,       \* the LLM reasoner: its api key, the files of cache/llm, the clock, its calls
    processor       \* the document processor: the file, cache/document_cache, the clock, its last call

vars == <<contract_type, clauses, cache, last, repeat, ex_text, ex_out, running, engine,
          frame, session, reasoner, processor>>

-----------------------------------------------------------------------------
(* Python values *)

\* Python's None, for the string-valued fields (never the text of a model string)
None == "<None>"
\* a key the dict does not hold
Absent == "<absent>"

-----------------------------------------------------------------------------
(* Characters and strings *)

\* str.lower on the letters A-Z, as a dict from each upper-case letter
ToLower ==
    [ A |-> "a", B |-> "b", C |-> "c", D |-> "d", E |-> "e", F |-> "f", G |-> "g",
      H |-> "h", I |-> "i", J |-> "j", K |-> "k", L |-> "l", M |-> "m", N |-> "n",
      O |-> "o", P |-> "p", Q |-> "q", R |-> "r", S |-> "s", T |-> "t", U |-> "u",
      V |-> "v", W |-> "w", X |-> "x", Y |-> "y", Z |-> "z" ]

\* str.lower on one character
LowerChar(c) == IF c \in DOMAIN ToLower THEN ToLower[c] ELSE c

\* str.lower
Lower(s) == [ i \in 1..Len(s) |-> LowerChar(s[i]) ]

\* Python's `k in text` for strings: k occurs as a contiguous substring
Contains(k, text) ==
    \E i \in 0..(Len(text) - Len(k)) :
        \A j \in 1..Len(k) : text[i + j] = k[j]


-----------------------------------------------------------------------------
(* risk_engine.py: the rule table and the weight matrix *)

\* _build_patterns: the dict of rules, in insertion order
patterns ==
  <<
    [ risk |-> "penalty",
      keywords |-> << <<"p","e","n","a","l","t","y">>,
                      <<"l","i","q","u","i","d","a","t","e","d"," ","d","a","m","a","g","e","s">>,
                      <<"f","i","n","e">>,
                      <<"f","o","r","f","e","i","t">> >>,
      base_score |-> 18,
      description |-> "Financial penalties imposed on breach",
      mitigation |-> "Cap penalties to actual damages" ],
    [ risk |-> "indemnity",
      keywords |-> << <<"i","n","d","e","m","n","i","f","y">>,
                      <<"h","o","l","d"," ","h","a","r","m","l","e","s","s">> >>,
      base_score |-> 20,
      description |-> "Indemnity obligation for losses",
      mitigation |-> "Limit indemnity to direct damages only" ],
    [ risk |-> "unilateral_termination",
      keywords |-> << <<"t","e","r","m","i","n","a","t","e"," ","w","i","t","h","o","u","t"," ","c","a","u","s","e">>,
                      <<"s","o","l","e"," ","d","i","s","c","r","e","t","i","o","n">> >>,
      base_score |-> 22,
      description |-> "One-sided termination rights",
      mitigation |-> "Seek mutual termination rights" ],
    [ risk |-> "jurisdiction",
      keywords |-> << <<"f","o","r","e","i","g","n"," ","j","u","r","i","s","d","i","c","t","i","o","n">>,
                      <<"o","u","t","s","i","d","e"," ","i","n","d","i","a">> >>,
      base_score |-> 15,
      description |-> "Non-Indian jurisdiction",
      mitigation |-> "Insist on Indian courts / arbitration" ],
    [ risk |-> "auto_renewal",
      keywords |-> << <<"a","u","t","o"," ","r","e","n","e","w">>,
                      <<"d","e","e","m","e","d"," ","r","e","n","e","w","e","d">>,
                      <<"l","o","c","k","-","i","n">> >>,
      base_score |-> 12,
      description |-> "Automatic renewal or lock-in",
      mitigation |-> "Add explicit renewal consent" ],
    [ risk |-> "non_compete_ip",
      keywords |-> << <<"n","o","n"," ","c","o","m","p","e","t","e">>,
                      <<"i","p"," ","a","s","s","i","g","n","m","e","n","t">>,
                      <<"r","e","s","t","r","a","i","n","t"," ","o","f"," ","t","r","a","d","e">> >>,
      base_score |-> 25,
      description |-> "Restrictive non-compete or IP transfer",
      mitigation |-> "Limit duration and preserve background IP" ],
    [ risk |-> "unlimited_liability",
      keywords |-> << <<"u","n","l","i","m","i","t","e","d"," ","l","i","a","b","i","l","i","t","y">>,
                      <<"a","l","l"," ","d","a","m","a","g","e","s">> >>,
      base_score |-> 30,
      description |-> "Unlimited financial exposure",
      mitigation |-> "Add liability cap" ]
  >>

\* _build_contract_weights, each multiplier in tenths (22 stands for 2.2)
weights ==
  [ employment_agreement |-> [ non_compete_ip |-> 20, unilateral_termination |-> 18 ],
    vendor_contract      |-> [ unlimited_liability |-> 22, penalty |-> 18, indemnity |-> 20 ],
    lease_agreement      |-> [ auto_renewal |-> 17 ],
    partnership_deed     |-> [ jurisdiction |-> 15 ],
    service_contract     |-> [ unlimited_liability |-> 20, indemnity |-> 19 ] ]

\* the engine after __init__: self.patterns and self.weights
ProductionRiskEngine == [ patterns |-> patterns, weights |-> weights ]

\* the default multiplier 1.0 of the weight lookup, in tenths
DefaultWeight == 10

\* the empty dict, and the empty directory
EmptyDict == [ k \in {} |-> 0 ]

\* dict.get(key, default), for a dict modelled as a function
Get(d, key, default) == IF key \in DOMAIN d THEN d[key] ELSE default

\* the weight lookup with 0 where the table has no entry
weight_or_zero(ct, risk_name) == Get(Get(weights, ct, EmptyDict), risk_name, 0)

\* self.weights after a lookup that leaves an empty entry for a contract type the
\* table does not have (setdefault in place of get)
weights_after_setdefault(ws, ct) ==
    IF ct \in DOMAIN ws THEN ws
    ELSE [ k \in (DOMAIN ws) \cup {ct} |-> IF k = ct THEN EmptyDict ELSE ws[k] ]

\* self.weights after the lookup self.weights.get(contract_type, {}) of line 64:
\* get returns the default without storing it
weights_after_get(ws, ct) == ws

\* self.weights.get(contract_type, {}).get(risk_name, 1.0), in tenths
weight(ct, risk_name) ==
    IF ct \in DOMAIN weights THEN Get(weights[ct], risk_name, DefaultWeight)
    ELSE DefaultWeight

\* _match that wants every keyword of a rule in the text
_match_all(text, rule) == \A i \in DOMAIN rule.keywords : Contains(rule.keywords[i], text)

\* _match: any keyword of the rule occurs in the text
_match(text, rule) ==
    \E i \in 1..Len(rule.keywords) : Contains(rule.keywords[i], text)

\* the clause thresholds 70 and 40 and the contract thresholds 60 and 30, in hundredths
ClauseHigh == 7000
ClauseMedium == 4000
ContractHigh == 6000
ContractMedium == 3000

\* _risk_level that uses the contract thresholds at both levels
_risk_level_contract(num, den, level) ==
    IF num >= ContractHigh * den THEN "High"
    ELSE IF num >= ContractMedium * den THEN "Medium" ELSE "Low"

\* _risk_level, for the score num/den hundredths (den > 0)
_risk_level(num, den, level) ==
    IF level = "clause"
    THEN (IF num >= ClauseHigh * den THEN "High"
          ELSE IF num >= ClauseMedium * den THEN "Medium" ELSE "Low")
    ELSE (IF num >= ContractHigh * den THEN "High"
          ELSE IF num >= ContractMedium * den THEN "Medium" ELSE "Low")

\* the clamp min(score, 100), in hundredths
MaxScore == 10000

Min(a, b) == IF a <= b THEN a ELSE b
Max(a, b) == IF a >= b THEN a ELSE b

-----------------------------------------------------------------------------
(* risk_engine.py: the JSON cache files *)

\* the contract types the classifier predicts (contract_classifier.py), one the
\* weight matrix does not know, and an absent one (None)
ContractTypes ==
    { "employment_agreement", "vendor_contract", "lease_agreement",
      "partnership_deed", "service_contract", "unknown_type", None }

\* f"{contract_type}": the characters the f-string writes for a contract type
str(ct) ==
    CASE ct = "employment_agreement" ->
           <<"e","m","p","l","o","y","m","e","n","t","_","a","g","r","e","e","m","e","n","t">>
      [] ct = "vendor_contract" ->
           <<"v","e","n","d","o","r","_","c","o","n","t","r","a","c","t">>
      [] ct = "lease_agreement" ->
           <<"l","e","a","s","e","_","a","g","r","e","e","m","e","n","t">>
      [] ct = "partnership_deed" ->
           <<"p","a","r","t","n","e","r","s","h","i","p","_","d","e","e","d">>
      [] ct = "service_contract" ->
           <<"s","e","r","v","i","c","e","_","c","o","n","t","r","a","c","t">>
      [] ct = "unknown_type" ->
           <<"u","n","k","n","o","w","n","_","t","y","p","e">>
      [] ct = None -> <<"N","o","n","e">>

\* hashlib.md5(f"{text}{contract_type}".encode()).hexdigest(): the digest is
\* represented by the string hashed
cache_key(text, ct) == text \o str(ct)

\* json.dumps of a string or None
DumpStr(v) == IF v = None THEN <<"null">> ELSE <<"string", v>>
\* DumpNum that writes the whole part of a score only
DumpNum_whole(n) == <<"number", n \div 100, 0>>

\* json.dumps of a number of hundredths: its decimal literal, as integer part and fraction
DumpNum(n) == <<"number", n \div 100, n % 100>>
\* json.loads of the two
LoadStr(j) == IF j[1] = "null" THEN None ELSE j[2]
LoadNum(j) == j[2] * 100 + j[3]

\* json.dumps(result, indent=2): the JSON text, as a tree of JSON values
json_dumps(result) ==
    [ clause_id    |-> DumpStr(result.clause_id),
      clause_type  |-> DumpStr(result.clause_type),
      risk_score   |-> DumpNum(result.risk_score),
      risk_level   |-> DumpStr(result.risk_level),
      risk_factors |-> [ i \in 1..Len(result.risk_factors) |->
                           [ risk        |-> DumpStr(result.risk_factors[i].risk),
                             description |-> DumpStr(result.risk_factors[i].description),
                             mitigation  |-> DumpStr(result.risk_factors[i].mitigation) ] ] ]

\* json.loads(cache_file.read_text())
json_loads(doc) ==
    [ clause_id    |-> LoadStr(doc.clause_id),
      clause_type  |-> LoadStr(doc.clause_type),
      risk_score   |-> LoadNum(doc.risk_score),
      risk_level   |-> LoadStr(doc.risk_level),
      risk_factors |-> [ i \in 1..Len(doc.risk_factors) |->
                           [ risk        |-> LoadStr(doc.risk_factors[i].risk),
                             description |-> LoadStr(doc.risk_factors[i].description),
                             mitigation  |-> LoadStr(doc.risk_factors[i].mitigation) ] ] ]

\* cache_file.write_text(text): the file is created or overwritten
write_text(files, key, text) ==
    [ k \in (DOMAIN files) \cup {key} |-> IF k = key THEN text ELSE files[k] ]

-----------------------------------------------------------------------------
(* The clause records the engine is given *)

Str(chars) == [ kind |-> "str", chars |-> chars ]

\* 18 + 22 + 30 = 70 where none of the three factors is weighted
cHigh ==
    [ id |-> "c-high", type |-> "limitation_of_liability",
      full_text |-> Str(<<"F","i","n","e",","," ","S","o","l","e"," ","D","i","s","c","r",
                          "e","t","i","o","n",","," ","A","L","L"," ","D","A","M","A","G","E","S">>) ]
\* 18 + 22 = 40 where neither factor is weighted
cForty ==
    [ id |-> "c-forty", type |-> "termination",
      full_text |-> Str(<<"P","e","n","a","l","t","y",";"," ","m","a","y"," ","t","e","r","m",
                          "i","n","a","t","e"," ","w","i","t","h","o","u","t"," ","c","a","u","s","e">>) ]
\* 20 + 15 = 35, and 20 + 22.5 under partnership_deed
cLow ==
    [ id |-> "c-low", type |-> "indemnification",
      full_text |-> Str(<<"I","n","d","e","m","n","i","f","y"," ","o","u","t","s","i","d","e",
                          " ","I","n","d","i","a">>) ]
\* 20, and 40 under vendor_contract
cTwenty ==
    [ id |-> "c-twenty", type |-> "indemnification",
      full_text |-> Str(<<"I","n","d","e","m","n","i","f","y">>) ]
\* 20 + 15 + 12 + 25 = 72, and 20 + 15 + 12 + 50 = 97 under employment_agreement
cWide ==
    [ id |-> "c-wide", type |-> "indemnification",
      full_text |-> Str(<<"I","n","d","e","m","n","i","f","y"," ","o","u","t","s","i","d","e",
                          " ","I","n","d","i","a",";"," ","l","o","c","k","-","i","n",";"," ",
                          "n","o","n"," ","c","o","m","p","e","t","e">>) ]
\* an empty text
cEmpty ==
    [ id |-> "c-empty", type |-> "payment", full_text |-> Str(<<>>) ]
\* a dict with no key at all
cBare ==
    [ id |-> Absent, type |-> Absent, full_text |-> [ kind |-> "absent", chars |-> <<>> ] ]
\* a full_text of None
cNull ==
    [ id |-> "c-null", type |-> "general", full_text |-> [ kind |-> "null", chars |-> <<>> ] ]

ClausePool == { cHigh, cForty, cLow, cTwenty, cEmpty, cBare, cNull }

\* one factor by both of its keywords: 30, and 66 under vendor_contract
cLiable ==
    [ id |-> "c-liable", type |-> "limitation_of_liability",
      full_text |-> Str(<<"E","m","p","l","o","y","e","e"," ","s","h","a","l","l",
                          " ","b","e"," ","l","i","a","b","l","e"," ","f","o","r"," ",
                          "u","n","l","i","m","i","t","e","d"," ","l","i","a","b","i",
                          "l","i","t","y"," ","f","o","r"," ","a","l","l"," ","d","a",
                          "m","a","g","e","s">>) ]

\* two factors, each by one keyword: 20 + 30 = 50
cPair ==
    [ id |-> "c-pair", type |-> "indemnification",
      full_text |-> Str(<<"I","n","d","e","m","n","i","f","y",";"," ","a","l","l"," ","d","a","m","a","g","e","s">>) ]

\* the text with the keyword k put in after its first i characters
Insert(text, k, i) == SubSeq(text, 1, i) \o k \o SubSeq(text, i + 1, Len(text))

\* the keywords of the rule table that occur in the lower-cased text
TriggeredKeywords(text) ==
    { k \in UNION { { patterns[r].keywords[j] : j \in DOMAIN patterns[r].keywords } :
                      r \in DOMAIN patterns } : Contains(k, Lower(text)) }

\* the clause records that are c with one more occurrence of a keyword that
\* already occurs in its text, put in anywhere
Additions(c) ==
    { [ c EXCEPT !.full_text = Str(Insert(c.full_text.chars, k, i)) ] :
        k \in TriggeredKeywords(c.full_text.chars), i \in 0..Len(c.full_text.chars) }

\* every clause record of the model
AllClauses == ClausePool \cup { cWide, cPair, cLiable } \cup Additions(cPair) \cup Additions(cTwenty)

-----------------------------------------------------------------------------
(* risk_engine.py: evaluate_clause *)

\* what a call that raised leaves as its result
AttributeError == [ error |-> "AttributeError" ]
ZeroDivisionError == [ error |-> "ZeroDivisionError" ]

\* the loop over self.patterns.items(): rules i..7 are still to be tried, acc holds
\* score (hundredths) and triggered so far
RECURSIVE scan_rules(_, _, _, _)
scan_rules(text, ct, i, acc) ==
    IF i > Len(patterns) THEN acc
    ELSE LET rule == patterns[i]
         IN IF _match(text, rule)
            THEN scan_rules(text, ct, i + 1,
                   [ score     |-> acc.score + rule.base_score * weight(ct, rule.risk) * 10,
                     triggered |-> Append(acc.triggered,
                                     [ risk        |-> rule.risk,
                                       description |-> rule.description,
                                       mitigation  |-> rule.mitigation ]) ])
            ELSE scan_rules(text, ct, i + 1, acc)

\* min(score, 100)
normalize(score) == Min(score, MaxScore)

\* the result computed from the rule table (the code after the cache test);
\* round(normalized, 2) changes nothing: a clause score has one decimal at most
compute_result(clause, text, ct) ==
    LET acc        == scan_rules(text, ct, 1, [ score |-> 0, triggered |-> <<>> ])
        normalized == normalize(acc.score)
    IN  [ clause_id    |-> IF clause.id = Absent THEN None ELSE clause.id,
          clause_type  |-> IF clause.type = Absent THEN "general" ELSE clause.type,
          risk_score   |-> normalized,
          risk_level   |-> _risk_level(normalized, 1, "clause"),
          risk_factors |-> acc.triggered ]

\* clause.get("full_text", "").lower() and the result computed from the rule table,
\* for each clause record of the pool: both depend on the arguments alone, and TLC
\* evaluates a constant once
lowered ==
    [ c \in AllClauses |->
        Lower(IF c.full_text.kind = "absent" THEN <<>> ELSE c.full_text.chars) ]
computed ==
    [ c \in AllClauses |->
        [ ct \in ContractTypes |-> compute_result(c, lowered[c], ct) ] ]

\* evaluate_clause on the cache directory `files`: the outcome, the result, the
\* cache directory afterwards and whether the result was read from the cache.
\* A full_text of None raises at .lower() before anything else happens.
evaluate_clause(clause, ct, files) ==
    IF clause.full_text.kind = "null"
    THEN [ outcome |-> "raised", result |-> AttributeError, files |-> files, hit |-> FALSE ]
    ELSE LET text == lowered[clause]
             key  == cache_key(text, ct)
         IN  IF key \in DOMAIN files
             THEN [ outcome |-> "returned", result |-> json_loads(files[key]),
                    files |-> files, hit |-> TRUE ]
             ELSE LET result == computed[clause][ct]
                  IN  [ outcome |-> "returned", result |-> result,
                        files |-> write_text(files, key, json_dumps(result)),
                        hit |-> FALSE ]

-----------------------------------------------------------------------------
(* risk_engine.py: evaluate_contract *)

\* len(highs) >= 3, avg *= 1.3 (in tenths), highs[:3], mediums[:5]
EscalationCount == 3
EscalationFactor == 13
TopHigh == 3
TopMedium == 5

\* the loop over r["risk_factors"] without the count += 1 for a name already there
RECURSIVE count_factors_first_only(_, _, _)
count_factors_first_only(factor_map, risk_factors, j) ==
    IF j > Len(risk_factors) THEN factor_map
    ELSE count_factors_first_only(
           [ k \in (DOMAIN factor_map) \cup {risk_factors[j].risk} |->
               IF k \in DOMAIN factor_map THEN factor_map[k]
               ELSE [ count |-> 1, description |-> risk_factors[j].description ] ],
           risk_factors, j + 1)

\* the loop over r["risk_factors"]: setdefault(name, {count: 0, description}), count += 1
RECURSIVE count_factors(_, _, _)
count_factors(factor_map, risk_factors, j) ==
    IF j > Len(risk_factors) THEN factor_map
    ELSE LET f    == risk_factors[j]
             name == f.risk
             old  == IF name \in DOMAIN factor_map THEN factor_map[name]
                     ELSE [ count |-> 0, description |-> f.description ]
         IN  count_factors(
               [ k \in (DOMAIN factor_map) \cup {name} |->
                   IF k = name THEN [ old EXCEPT !.count = old.count + 1 ]
                   ELSE factor_map[k] ],
               risk_factors, j + 1)

\* the locals of evaluate_contract before its loop, on the cache directory `files`
loop_start(files) ==
    [ outcome |-> "returned", clause_results |-> <<>>, highs |-> <<>>, mediums |-> <<>>,
      total_score |-> 0, factor_map |-> EmptyDict, files |-> files, looked_up |-> FALSE ]

\* the loop `for clause in clauses`, from clause i on; an evaluate_clause that raises
\* ends evaluate_contract, and the cache files written before it stay written
\* (looked_up: some evaluate_clause of the loop has run the weight lookup of line 64)
RECURSIVE contract_loop(_, _, _, _)
contract_loop(cls, ct, i, st) ==
    IF i > Len(cls) THEN st
    ELSE LET call == evaluate_clause(cls[i], ct, st.files)
             r    == call.result
         IN  IF call.outcome = "raised"
             THEN [ st EXCEPT !.outcome = "raised", !.files = call.files ]
             ELSE contract_loop(cls, ct, i + 1,
                    [ outcome        |-> "returned",
                      clause_results |-> Append(st.clause_results, r),
                      highs          |-> IF r.risk_level = "High"
                                         THEN Append(st.highs, r) ELSE st.highs,
                      mediums        |-> IF r.risk_level # "High" /\ r.risk_level = "Medium"
                                         THEN Append(st.mediums, r) ELSE st.mediums,
                      total_score    |-> st.total_score + r.risk_score,
                      factor_map     |-> count_factors(st.factor_map, r.risk_factors, 1),
                      files          |-> call.files,
                      looked_up      |-> st.looked_up \/ (~call.hit /\ r.risk_factors # <<>>) ])

\* divisor without the guard against an empty list
divisor_len(cls) == Len(cls)

\* max(len(clauses), 1), what total_score is divided by
divisor(cls) == Max(Len(cls), 1)

\* average that never takes the minimum with 100
average_unclamped(cls, st) ==
    LET n == divisor(cls)
    IN  IF Len(st.highs) >= EscalationCount
        THEN [ num |-> st.total_score * EscalationFactor, den |-> n * 10 ]
        ELSE [ num |-> st.total_score, den |-> n ]

\* average that multiplies only above three High clauses
average_above_three(cls, st) ==
    LET n   == divisor(cls)
        esc == Len(st.highs) > EscalationCount
        num == IF esc THEN st.total_score * EscalationFactor ELSE st.total_score
        den == IF esc THEN n * 10 ELSE n
    IN  IF den > 0 /\ num > MaxScore * den THEN [ num |-> MaxScore, den |-> 1 ]
        ELSE [ num |-> num, den |-> den ]

\* avg after lines 111-117, as the fraction num/den of hundredths:
\* total_score / max(len(clauses), 1), times 1.3 when len(highs) >= 3, at most 100.
\* A den of 0 stands for the ZeroDivisionError that a division by 0 raises.
average(cls, st) ==
    LET n    == divisor(cls)
        esc  == Len(st.highs) >= EscalationCount
        num  == IF esc THEN st.total_score * EscalationFactor ELSE st.total_score
        den  == IF esc THEN n * 10 ELSE n
    IN  IF den > 0 /\ num > MaxScore * den THEN [ num |-> MaxScore, den |-> 1 ]
        ELSE [ num |-> num, den |-> den ]

\* round that drops the digits after the second decimal
round_down(num, den) == { num \div den }

\* round(avg, 2), in hundredths: the hundredth nearest to avg. avg is a double; when
\* the exact quotient lies midway between two hundredths the double lies on one side
\* or the other of it, and round() follows the double: both neighbours are kept.
round(num, den) ==
    LET q == num \div den
        r == num % den
    IN  IF 2 * r < den THEN {q}
        ELSE IF 2 * r > den THEN {q + 1}
        ELSE {q, q + 1}

\* s[-n:] for n > 0: the last n elements rather than the first
Suffix(s, n) == SubSeq(s, Len(s) - Min(Len(s), n) + 1, Len(s))

\* s[:n]
Prefix(s, n) == SubSeq(s, 1, Min(Len(s), n))

\* the RiskScore that evaluate_contract returns, `rounded` being round(avg, 2)
RiskScore(st, avg, rounded) ==
    [ clause_level        |-> _risk_level(avg.num, avg.den, "clause"),
      clause_score        |-> rounded,
      contract_level      |-> _risk_level(avg.num, avg.den, "contract"),
      contract_score      |-> rounded,
      high_risk_clauses   |-> Prefix(st.highs, TopHigh),
      medium_risk_clauses |-> Prefix(st.mediums, TopMedium),
      risk_factors        |-> st.factor_map ]

-----------------------------------------------------------------------------
(* The engine at work on its cache directory, which starts empty.          *)
(* Spec: evaluate_clause is called on any clause records, any number of    *)
(* times, under the contract type predicted for the document.              *)
(* SpecContract: evaluate_contract is called on the clause list of a       *)
(* document, any number of times.                                          *)

\* the longest clause list of a document
MaxClauses == 3

\* the clause lists a document may have
Documents == UNION { [ 1..n -> ClausePool ] : n \in 0..MaxClauses }

\* no call yet
NoCall ==
    [ op |-> "none", outcome |-> "none", result |-> [ error |-> "none" ],
      hit |-> FALSE, clause_results |-> <<>>, clause |-> cBare ]

NoExtract == [ outcome |-> "none" ]

\* no evaluate_contract is being followed
NoFrame == [ pc |-> "idle" ]

\* no analyze_clause call of the reasoner yet
NoAnalysis == [ key |-> <<>>, at |-> 0, out |-> EmptyDict, llm |-> FALSE,
                fallback |-> FALSE, wrote |-> FALSE, called |-> FALSE ]

\* a reasoner without api key, cache/llm empty, the clock at 0
NoReasoner ==
    [ api_key |-> FALSE, files |-> EmptyDict, now |-> 0, last |-> NoAnalysis,
      before |-> NoAnalysis ]

\* a document processor that has processed nothing: no file, an empty cache
NoProcessor ==
    [ file |-> [ hash |-> "none", ext |-> "none", scanned |-> FALSE ], files |-> EmptyDict,
      now |-> 0, last |-> [ out |-> [ type |-> "none" ], cached |-> FALSE, called |-> FALSE ] ]

\* analyze_document has not been called: no audit session, no event
NoSession ==
    [ pc |-> "start_session", started |-> 0, events |-> <<>>, closed |-> <<>>,
      raised |-> "none", returned |-> "none" ]

Init ==
    /\ contract_type \in ContractTypes
    /\ clauses = <<>>
    /\ cache = EmptyDict
    /\ last = NoCall
    /\ repeat = NoCall
    /\ ex_text = <<>>
    /\ ex_out = NoExtract
    /\ running = <<>>
    /\ engine = ProductionRiskEngine
    /\ frame = NoFrame
    /\ session = NoSession
    /\ reasoner = NoReasoner
    /\ processor = NoProcessor

\* the record of the call before, kept when this call has the same arguments
Repeat(op, clause) ==
    IF last.op = op /\ last.clause = clause THEN last ELSE NoCall

\* risk_engine.evaluate_clause(clause, contract_type)
EvaluateClause(clause) ==
    LET call == evaluate_clause(clause, contract_type, cache)
    IN  /\ cache' = call.files
        /\ last' = [ op |-> "evaluate_clause", outcome |-> call.outcome,
                     result |-> call.result, hit |-> call.hit,
                     clause_results |-> <<>>, clause |-> clause ]
        /\ repeat' = Repeat("evaluate_clause", clause)
        /\ engine' = IF call.outcome = "returned" /\ ~call.hit /\ call.result.risk_factors # <<>>
                      THEN [ engine EXCEPT !.weights = weights_after_get(@, contract_type) ]
                      ELSE engine
        /\ UNCHANGED <<contract_type, clauses, ex_text, ex_out, running, frame, session, reasoner, processor>>

\* the clause records evaluate_clause is called with
ClauseCalls == ClausePool \cup { cLiable }

Next == \E clause \in ClauseCalls : EvaluateClause(clause)

Spec == Init /\ [][Next]_vars

InitContract ==
    /\ contract_type \in ContractTypes
    /\ clauses \in Documents
    /\ cache = EmptyDict
    /\ last = NoCall
    /\ repeat = NoCall
    /\ ex_text = <<>>
    /\ ex_out = NoExtract
    /\ running = <<>>
    /\ engine = ProductionRiskEngine
    /\ frame = NoFrame
    /\ session = NoSession
    /\ reasoner = NoReasoner
    /\ processor = NoProcessor

\* risk_engine.evaluate_contract(clauses, contract_type)
EvaluateContract ==
    LET st  == contract_loop(clauses, contract_type, 1, loop_start(cache))
        avg == average(clauses, st)
    IN  /\ cache' = st.files
        /\ \/ /\ st.outcome = "raised" \/ avg.den = 0
              /\ last' = [ op |-> "evaluate_contract", outcome |-> "raised",
                           result |-> IF st.outcome = "raised"
                                      THEN AttributeError ELSE ZeroDivisionError,
                           hit |-> FALSE,
                           clause_results |-> st.clause_results, clause |-> cBare ]
           \/ /\ st.outcome = "returned" /\ avg.den > 0
              /\ \E rounded \in round(avg.num, avg.den) :
                    last' = [ op |-> "evaluate_contract", outcome |-> "returned",
                              result |-> RiskScore(st, avg, rounded), hit |-> FALSE,
                              clause_results |-> st.clause_results, clause |-> cBare ]
        /\ repeat' = Repeat("evaluate_contract", cBare)
        /\ engine' = IF st.looked_up
                      THEN [ engine EXCEPT !.weights = weights_after_get(@, contract_type) ]
                      ELSE engine
        /\ UNCHANGED <<contract_type, clauses, ex_text, ex_out, running, frame, session, reasoner, processor>>

NextContract == EvaluateContract

SpecContract == InitContract /\ [][NextContract]_vars

-----------------------------------------------------------------------------
(* SpecLong: evaluate_contract on longer documents, each some clauses of   *)
(* one kind, then some of a second, then some with an empty text.          *)

\* the longest clause list of such a document
MaxLongClauses == 8

\* n copies of a clause record
Copies(c, n) == [ i \in 1..n |-> c ]

LongDocuments ==
    { Copies(cWide, a) \o Copies(cHigh, b) \o Copies(cEmpty, c) :
        <<a, b, c>> \in { t \in (0..MaxLongClauses) \X (0..MaxLongClauses) \X (0..MaxLongClauses) :
                            t[1] + t[2] + t[3] <= MaxLongClauses } }

InitLong ==
    /\ contract_type \in ContractTypes
    /\ clauses \in LongDocuments
    /\ cache = EmptyDict
    /\ last = NoCall
    /\ repeat = NoCall
    /\ ex_text = <<>>
    /\ ex_out = NoExtract
    /\ running = <<>>
    /\ engine = ProductionRiskEngine
    /\ frame = NoFrame
    /\ session = NoSession
    /\ reasoner = NoReasoner
    /\ processor = NoProcessor

SpecLong == InitLong /\ [][NextContract]_vars

-----------------------------------------------------------------------------
(* SpecAdd: evaluate_contract on documents of two clauses, the second being *)
(* the first with one more occurrence of a keyword its text already has.    *)

AddDocuments == UNION { { <<c, d>> : d \in Additions(c) } : c \in { cPair, cTwenty } }

InitAdd ==
    /\ contract_type \in ContractTypes
    /\ clauses \in AddDocuments
    /\ cache = EmptyDict
    /\ last = NoCall
    /\ repeat = NoCall
    /\ ex_text = <<>>
    /\ ex_out = NoExtract
    /\ running = <<>>
    /\ engine = ProductionRiskEngine
    /\ frame = NoFrame
    /\ session = NoSession
    /\ reasoner = NoReasoner
    /\ processor = NoProcessor

SpecAdd == InitAdd /\ [][NextContract]_vars

-----------------------------------------------------------------------------
(* SpecTop: evaluate_contract on documents long enough to hold more than    *)
(* three High and more than five Medium clauses, of two different clauses   *)
(* each, the levels alternating along the document.                         *)

\* the most copies of one Medium clause and of one High clause in a document
MaxMediumCopies == 3
MaxHighCopies == 2

TopDocuments ==
    { Copies(cForty, a) \o Copies(cWide, b) \o Copies(cPair, c) \o Copies(cHigh, d) :
        a \in 0..MaxMediumCopies, b \in 0..MaxHighCopies,
        c \in 0..MaxMediumCopies, d \in 0..MaxHighCopies }

InitTop ==
    /\ contract_type \in ContractTypes
    /\ clauses \in TopDocuments
    /\ cache = EmptyDict
    /\ last = NoCall
    /\ repeat = NoCall
    /\ ex_text = <<>>
    /\ ex_out = NoExtract
    /\ running = <<>>
    /\ engine = ProductionRiskEngine
    /\ frame = NoFrame
    /\ session = NoSession
    /\ reasoner = NoReasoner
    /\ processor = NoProcessor

SpecTop == InitTop /\ [][NextContract]_vars

-----------------------------------------------------------------------------
(* SpecSteps: one evaluate_contract call followed through its loop, one     *)
(* iteration at a time, and then through the lines after the loop.          *)

\* the clause records of the documents
StepClauses == { cHigh, cForty, cTwenty, cNull }

StepDocuments == UNION { [ 1..n -> StepClauses ] : n \in 0..MaxClauses }

InitSteps ==
    /\ contract_type \in ContractTypes
    /\ clauses \in StepDocuments
    /\ cache = EmptyDict
    /\ last = NoCall
    /\ repeat = NoCall
    /\ ex_text = <<>>
    /\ ex_out = NoExtract
    /\ running = <<>>
    /\ engine = ProductionRiskEngine
    /\ frame = NoFrame
    /\ session = NoSession
    /\ reasoner = NoReasoner
    /\ processor = NoProcessor

\* the loop that stops one clause before the end of the list
exhausted_one_early(cls, i) == i >= Len(cls)

\* `for clause in clauses` has no clause left, i being the next position
exhausted(cls, i) == i > Len(cls)

\* lines 88-91: the call starts with empty locals
Enter ==
    /\ frame.pc = "idle"
    /\ frame' = [ pc |-> "loop", i |-> 1, st |-> loop_start(cache) ]
    /\ UNCHANGED <<contract_type, clauses, cache, last, repeat, ex_text, ex_out, running,
                   engine, session, reasoner, processor>>

\* lines 93-109: one iteration of the loop, for clause i; an evaluate_clause that
\* raises ends the call
Iterate ==
    /\ frame.pc = "loop"
    /\ ~exhausted(clauses, frame.i)
    /\ \E st \in { contract_loop(<< clauses[frame.i] >>, contract_type, 1, frame.st) } :
          /\ cache' = st.files
          /\ \/ /\ st.outcome = "raised"
                /\ frame' = [ pc |-> "raised", i |-> frame.i, st |-> st ]
                /\ last' = [ op |-> "evaluate_contract", outcome |-> "raised",
                             result |-> AttributeError, hit |-> FALSE,
                             clause_results |-> st.clause_results, clause |-> cBare ]
             \/ /\ st.outcome = "returned"
                /\ frame' = [ pc |-> "loop", i |-> frame.i + 1, st |-> st ]
                /\ last' = last
    /\ UNCHANGED <<contract_type, clauses, repeat, ex_text, ex_out, running, engine, session, reasoner, processor>>

\* lines 111-128: the mean, the escalation, the levels and the return value
Aggregate ==
    /\ frame.pc = "loop"
    /\ exhausted(clauses, frame.i)
    /\ \E avg \in { average(clauses, frame.st) } :
          \E rounded \in round(avg.num, avg.den) :
             last' = [ op |-> "evaluate_contract", outcome |-> "returned",
                       result |-> RiskScore(frame.st, avg, rounded), hit |-> FALSE,
                       clause_results |-> frame.st.clause_results, clause |-> cBare ]
    /\ frame' = [ frame EXCEPT !.pc = "returned" ]
    /\ UNCHANGED <<contract_type, clauses, cache, repeat, ex_text, ex_out, running, engine, session, reasoner, processor>>

NextSteps == Enter \/ Iterate \/ Aggregate

SpecSteps == InitSteps /\ [][NextSteps]_vars

-----------------------------------------------------------------------------
(* SpecAnalyze: orchestrator.py, LegalAnalysisOrchestrator.analyze_document *)
(* on one file. The collaborators outside the scoring core (document        *)
(* processor, language handler, classifier, entity extractor) return or     *)
(* raise as they please; the clause extractor and the risk engine are the   *)
(* code modelled above. ProductionRiskEngine has no method                  *)
(* generate_risk_report, so line 91 raises AttributeError and lines 94-147  *)
(* (risk_scored, llm_reasoned, report_generated, close "completed",         *)
(* success True) are never reached.                                         *)

\* the clause lists extract_clauses hands on
ExtractedDocuments == UNION { [ 1..n -> { cHigh, cForty, cTwenty } ] : n \in 0..MaxClauses }

InitAnalyze ==
    /\ contract_type = None
    /\ clauses = <<>>
    /\ cache = EmptyDict
    /\ last = NoCall
    /\ repeat = NoCall
    /\ ex_text = <<>>
    /\ ex_out = NoExtract
    /\ running = <<>>
    /\ engine = ProductionRiskEngine
    /\ frame = NoFrame
    /\ session = NoSession
    /\ reasoner = NoReasoner
    /\ processor = NoProcessor

\* audit_logger.log_event(session_id, stage): the event is appended to the session
log_event(s, stage) == [ s EXCEPT !.events = Append(@, stage) ]

\* audit_logger.close_session(session_id, status)
close_session(s, status) == [ s EXCEPT !.closed = Append(@, status) ]

\* the except branch, lines 149-158: the error event, the close with status failed,
\* the return of success False
except(s, who) ==
    [ close_session(log_event(s, "error"), "failed")
        EXCEPT !.pc = "returned", !.raised = who, !.returned = "failure" ]

\* line 52: session_id = self.audit_logger.start_session(file_path.name)
StartSession ==
    /\ session.pc = "start_session"
    /\ session' = [ session EXCEPT !.pc = "process_document", !.started = @ + 1 ]
    /\ UNCHANGED <<contract_type, clauses, cache, last, repeat, ex_text, ex_out, running,
                   engine, frame, reasoner, processor>>

\* a stage whose collaborator returns (the event is logged, the next stage is up)
\* or raises (the except branch runs)
Stage(pc, event, next) ==
    /\ session.pc = pc
    /\ \/ session' = [ log_event(session, event) EXCEPT !.pc = next ]
       \/ session' = except(session, "collaborator")

\* lines 56-57: doc_processor.process_document
ProcessDocument ==
    /\ Stage("process_document", "document_processed", "detect_and_normalize")
    /\ UNCHANGED <<contract_type, clauses, cache, last, repeat, ex_text, ex_out, running,
                   engine, frame, reasoner, processor>>

\* lines 62-67: language_handler.detect_and_normalize
DetectAndNormalize ==
    /\ Stage("detect_and_normalize", "language_normalized", "classify_contract")
    /\ UNCHANGED <<contract_type, clauses, cache, last, repeat, ex_text, ex_out, running,
                   engine, frame, reasoner, processor>>

\* lines 70-75: classifier.classify_contract and its predicted_type
ClassifyContract ==
    /\ Stage("classify_contract", "contract_classified", "extract_clauses")
    /\ IF session'.pc = "extract_clauses"
       THEN contract_type' \in ContractTypes \ { None }
       ELSE contract_type' = contract_type
    /\ UNCHANGED <<clauses, cache, last, repeat, ex_text, ex_out, running, engine, frame, reasoner, processor>>

\* lines 78-81: clause_extractor.extract_clauses, which returns a list for any text
ExtractStage ==
    /\ session.pc = "extract_clauses"
    /\ clauses' \in ExtractedDocuments
    /\ session' = [ log_event(session, "clauses_extracted") EXCEPT !.pc = "extract" ]
    /\ UNCHANGED <<contract_type, cache, last, repeat, ex_text, ex_out, running, engine,
                   frame, reasoner, processor>>

\* lines 84-85: entity_extractor.extract
ExtractEntities ==
    /\ Stage("extract", "entities_extracted", "evaluate_contract")
    /\ UNCHANGED <<contract_type, clauses, cache, last, repeat, ex_text, ex_out, running,
                   engine, frame, reasoner, processor>>

\* lines 88-93: risk_engine.evaluate_contract runs (and fills the cache), then
\* self.risk_engine.generate_risk_report raises AttributeError, the engine having
\* no such method, and the except branch runs
ScoreRisk ==
    /\ session.pc = "evaluate_contract"
    /\ cache' = contract_loop(clauses, contract_type, 1, loop_start(cache)).files
    /\ session' = except(session, "risk_engine")
    /\ UNCHANGED <<contract_type, clauses, last, repeat, ex_text, ex_out, running, engine,
                   frame, reasoner, processor>>

NextAnalyze ==
    \/ StartSession
    \/ ProcessDocument
    \/ DetectAndNormalize
    \/ ClassifyContract
    \/ ExtractStage
    \/ ExtractEntities
    \/ ScoreRisk

SpecAnalyze == InitAnalyze /\ [][NextAnalyze]_vars

-----------------------------------------------------------------------------
(* llm_reasoner.py: ProductionLLMReasoner.analyze_clause and its file cache *)
(* SpecReason: analyze_clause is called any number of times while time       *)
(* passes; the LLM, when an api key is set, answers with a JSON object or    *)
(* with nothing.                                                             *)

\* cache_ttl: int = 86400 (seconds)
cache_ttl == 86400

\* the seconds the clock advances by between calls, and how often it does
TickSeconds == 30000
MaxTicks == 3

\* hashlib.md5(f"{clause_text}{clause_type}{contract_type}".encode()).hexdigest(),
\* the digest represented by the string hashed
llm_cache_key(clause_text, clause_type, ct) == clause_text \o clause_type \o str(ct)

\* _cache_valid at time now: an entry without "_cached_at" (or with 0) is not valid
_cache_valid(data, now) ==
    IF "_cached_at" \notin DOMAIN data THEN FALSE
    ELSE data["_cached_at"] # 0 /\ now - data["_cached_at"] < cache_ttl

\* the risk names of a risk_summary
risk_names(risk_summary) ==
    [ i \in DOMAIN risk_summary.risk_factors |-> risk_summary.risk_factors[i].risk ]

\* _fallback_reasoning: the fields that depend on the arguments, and the markers
_fallback_reasoning(clause_type, ct, risk_summary) ==
    [ plain_language_explanation |-> << clause_type, ct >>,
      key_risks     |-> Prefix(risk_names(risk_summary), 3),
      confidence    |-> 55,
      fallback_used |-> TRUE ]

\* what _call_llm returns: None, an empty object, or the object the LLM wrote
NoReply == [ none |-> TRUE ]
Replies ==
    { NoReply, EmptyDict,
      [ plain_language_explanation |-> << "llm" >>, key_risks |-> <<>>, confidence |-> 90 ] }

\* `if result:` - None and {} are both false
truthy(result) == result # NoReply /\ DOMAIN result # {}

\* the arguments of the calls
ReasonTexts == { <<"I","n","d","e","m","n","i","f","y">> }
ReasonTypes == { <<"p","a","y","m","e","n","t">>, <<"g","e","n","e","r","a","l">> }
ReasonSummaries == { computed[cTwenty]["vendor_contract"], computed[cEmpty]["vendor_contract"] }

InitReason ==
    /\ contract_type \in { "vendor_contract", "lease_agreement" }
    /\ clauses = <<>>
    /\ cache = EmptyDict
    /\ last = NoCall
    /\ repeat = NoCall
    /\ ex_text = <<>>
    /\ ex_out = NoExtract
    /\ running = <<>>
    /\ engine = ProductionRiskEngine
    /\ frame = NoFrame
    /\ session = NoSession
    /\ \E k \in BOOLEAN : reasoner = [ NoReasoner EXCEPT !.api_key = k ]
    /\ processor = NoProcessor

\* the record of an analyze_clause call
Analysis(key, out, llm, fallback, wrote) ==
    [ key |-> key, at |-> reasoner.now, out |-> out, llm |-> llm, fallback |-> fallback,
      wrote |-> wrote, called |-> TRUE ]

\* analyze_clause(clause_text, clause_type, contract_type, risk_summary), the LLM
\* answering `reply` if it is asked
analyze_clause(clause_text, clause_type, risk_summary, reply) ==
    LET key == llm_cache_key(clause_text, clause_type, contract_type)
    IN  IF key \in DOMAIN reasoner.files /\ _cache_valid(reasoner.files[key], reasoner.now)
        THEN [ files |-> reasoner.files,
               call  |-> Analysis(key, reasoner.files[key], FALSE, FALSE, FALSE) ]
        ELSE IF reasoner.api_key /\ truthy(reply)
        THEN [ files |-> write_text(reasoner.files, key, reply),
               call  |-> Analysis(key, reply, TRUE, FALSE, TRUE) ]
        ELSE [ files |-> write_text(reasoner.files, key,
                           _fallback_reasoning(clause_type, contract_type, risk_summary)),
               call  |-> Analysis(key,
                           _fallback_reasoning(clause_type, contract_type, risk_summary),
                           reasoner.api_key, TRUE, TRUE) ]

AnalyzeClause ==
    /\ \E clause_text \in ReasonTexts, clause_type \in ReasonTypes,
          risk_summary \in ReasonSummaries, reply \in Replies :
          \E done \in { analyze_clause(clause_text, clause_type, risk_summary, reply) } :
             reasoner' = [ reasoner EXCEPT !.files = done.files, !.last = done.call,
                                           !.before = reasoner.last ]
    /\ UNCHANGED <<contract_type, clauses, cache, last, repeat, ex_text, ex_out, running,
                   engine, frame, session, processor>>

\* time passes
Tick ==
    /\ reasoner.now < MaxTicks * TickSeconds
    /\ reasoner' = [ reasoner EXCEPT !.now = @ + TickSeconds ]
    /\ UNCHANGED <<contract_type, clauses, cache, last, repeat, ex_text, ex_out, running,
                   engine, frame, session, processor>>

NextReason == AnalyzeClause \/ Tick

SpecReason == InitReason /\ [][NextReason]_vars

-----------------------------------------------------------------------------
(* document_processor.py: ProductionDocumentProcessor.process_document and  *)
(* its cache. SpecDocument: process_document is called on one file any      *)
(* number of times while time passes; the parsers and the OCR succeed or    *)
(* fail from call to call.                                                  *)

\* the seconds a cached document stays valid (line 294)
DocumentCacheSeconds == 86400

\* the files: a scanned pdf, a digital pdf, a Word file, a text file, a spreadsheet
DocumentFiles ==
    { [ hash |-> "h-scan", ext |-> ".pdf", scanned |-> TRUE ],
      [ hash |-> "h-pdf", ext |-> ".pdf", scanned |-> FALSE ],
      [ hash |-> "h-docx", ext |-> ".docx", scanned |-> FALSE ],
      [ hash |-> "h-txt", ext |-> ".txt", scanned |-> FALSE ],
      [ hash |-> "h-xls", ext |-> ".xls", scanned |-> FALSE ] }

\* what the libraries do on a call: fitz, pdf2image / pytesseract, python-docx
Libraries == [ fitz : BOOLEAN, ocr : BOOLEAN, docx : BOOLEAN ]

\* a processing step that returned a result, and one that raised
Returned(result) == [ outcome |-> "returned", result |-> result ]
Raised == [ outcome |-> "raised", result |-> [ type |-> "none" ] ]

\* _error_fallback: a result of type "error" stamped with the time
_error_fallback(now) ==
    [ type |-> "error", metadata |-> [ processed_at |-> now, error_occurred |-> TRUE ] ]

\* _process_scanned_pdf: an OCR failure is caught and the error result is returned
_process_scanned_pdf(libs, now) ==
    IF libs.ocr THEN Returned([ type |-> "scanned_pdf" ])
    ELSE Returned(_error_fallback(now))

\* _process_digital_pdf: a failure falls back to OCR
_process_digital_pdf(libs, now) ==
    IF libs.fitz THEN Returned([ type |-> "digital_pdf" ])
    ELSE _process_scanned_pdf(libs, now)

\* _process_pdf, is_scanned being what _detect_scanned_pdf finds
_process_pdf(file, libs, now) ==
    IF file.scanned THEN _process_scanned_pdf(libs, now)
    ELSE _process_digital_pdf(libs, now)

\* _process_word: Document(file_path) raises on a file it cannot parse
_process_word(libs) ==
    IF libs.docx THEN Returned([ type |-> "word_document" ]) ELSE Raised

\* _process_text
_process_text == Returned([ type |-> "text_file" ])

\* lines 61-70: the branch on the extension; an unsupported type raises ValueError
dispatch(file, libs, now) ==
    IF file.ext = ".pdf" THEN _process_pdf(file, libs, now)
    ELSE IF file.ext \in { ".docx", ".doc" } THEN _process_word(libs)
    ELSE IF file.ext = ".txt" THEN _process_text
    ELSE Raised

\* _is_cache_valid at time now
_is_cache_valid(cached, now) == now - cached.metadata.processed_at < DocumentCacheSeconds

\* lines 73-79: result["metadata"] = {...}
with_metadata(result, file, now) ==
    [ type |-> result.type,
      metadata |-> [ processed_at |-> now, file_hash |-> file.hash ] ]

\* process_document on the cache directory `files` at time now: what is returned,
\* the cache directory afterwards, and whether the result came from the cache
process_document(file, libs, files, now) ==
    IF file.hash \in DOMAIN files /\ _is_cache_valid(files[file.hash], now)
    THEN [ out |-> files[file.hash], files |-> files, cached |-> TRUE ]
    ELSE IF dispatch(file, libs, now).outcome = "raised"
    THEN [ out |-> _error_fallback(now), files |-> files, cached |-> FALSE ]
    ELSE [ out    |-> with_metadata(dispatch(file, libs, now).result, file, now),
           files  |-> write_text(files, file.hash,
                                 with_metadata(dispatch(file, libs, now).result, file, now)),
           cached |-> FALSE ]

InitDocument ==
    /\ contract_type = None
    /\ clauses = <<>>
    /\ cache = EmptyDict
    /\ last = NoCall
    /\ repeat = NoCall
    /\ ex_text = <<>>
    /\ ex_out = NoExtract
    /\ running = <<>>
    /\ engine = ProductionRiskEngine
    /\ frame = NoFrame
    /\ session = NoSession
    /\ reasoner = NoReasoner
    /\ \E file \in DocumentFiles : processor = [ NoProcessor EXCEPT !.file = file ]

ProcessDocumentCall ==
    /\ \E libs \in Libraries :
          \E done \in { process_document(processor.file, libs, processor.files, processor.now) } :
             processor' = [ processor EXCEPT
                              !.files = done.files,
                              !.last = [ out |-> done.out, cached |-> done.cached,
                                         called |-> TRUE ] ]
    /\ UNCHANGED <<contract_type, clauses, cache, last, repeat, ex_text, ex_out, running,
                   engine, frame, session, reasoner>>

\* time passes
TickDocument ==
    /\ processor.now < MaxTicks * TickSeconds
    /\ processor' = [ processor EXCEPT !.now = @ + TickSeconds ]
    /\ UNCHANGED <<contract_type, clauses, cache, last, repeat, ex_text, ex_out, running,
                   engine, frame, session, reasoner>>

NextDocument == ProcessDocumentCall \/ TickDocument

SpecDocument == InitDocument /\ [][NextDocument]_vars

-----------------------------------------------------------------------------
(* SpecRace: several callers run evaluate_clause on the same clause and     *)
(* contract type side by side (the engines of several sessions share the    *)
(* directory cache/risk). Nothing in evaluate_clause locks the cache file,  *)
(* so the calls interleave between any two file operations.                 *)

\* the callers that run side by side
NumCallers == 2
Callers == 1..NumCallers

\* the clause the callers evaluate
RaceClauses == { cHigh, cForty, cTwenty, cEmpty }

\* a cache file that has been opened for writing and holds no text yet
EmptyFile == [ bytes |-> 0 ]

\* what json.loads raises on the text of an empty file
JSONDecodeError == [ error |-> "JSONDecodeError" ]

\* a caller about to run line 55
Called(clause) == [ pc |-> "exists", clause |-> clause, result |-> [ error |-> "none" ] ]

InitRace ==
    /\ contract_type \in ContractTypes
    /\ clauses = <<>>
    /\ cache = EmptyDict
    /\ last = NoCall
    /\ repeat = NoCall
    /\ ex_text = <<>>
    /\ ex_out = NoExtract
    /\ \E clause \in RaceClauses : running = [ p \in Callers |-> Called(clause) ]
    /\ engine = ProductionRiskEngine
    /\ frame = NoFrame
    /\ session = NoSession
    /\ reasoner = NoReasoner
    /\ processor = NoProcessor

\* the cache key of caller p (lines 49-53)
KeyOf(p) == cache_key(lowered[running[p].clause], contract_type)

\* line 55: if cache_file.exists()
CacheFileExists(p) ==
    /\ running[p].pc = "exists"
    /\ running' = [ running EXCEPT ![p].pc =
                      IF KeyOf(p) \in DOMAIN cache THEN "read" ELSE "compute" ]
    /\ UNCHANGED <<contract_type, clauses, cache, last, repeat, ex_text, ex_out, engine, frame, session, reasoner, processor>>

\* line 56: return json.loads(cache_file.read_text())
ReadText(p) ==
    /\ running[p].pc = "read"
    /\ running' = [ running EXCEPT ![p] =
                      IF cache[KeyOf(p)] = EmptyFile
                      THEN [ @ EXCEPT !.pc = "raised", !.result = JSONDecodeError ]
                      ELSE [ @ EXCEPT !.pc = "returned",
                                      !.result = json_loads(cache[KeyOf(p)]) ] ]
    /\ UNCHANGED <<contract_type, clauses, cache, last, repeat, ex_text, ex_out, engine, frame, session, reasoner, processor>>

\* lines 58-82: the result is computed
ComputeResult(p) ==
    /\ running[p].pc = "compute"
    /\ running' = [ running EXCEPT ![p].pc = "open",
                                   ![p].result = computed[running[p].clause][contract_type] ]
    /\ UNCHANGED <<contract_type, clauses, cache, last, repeat, ex_text, ex_out, engine, frame, session, reasoner, processor>>

\* line 84, first half: write_text opens the file in mode "w", which creates it
\* or cuts it to length 0
OpenForWriting(p) ==
    /\ running[p].pc = "open"
    /\ cache' = write_text(cache, KeyOf(p), EmptyFile)
    /\ running' = [ running EXCEPT ![p].pc = "write" ]
    /\ UNCHANGED <<contract_type, clauses, last, repeat, ex_text, ex_out, engine, frame, session, reasoner, processor>>

\* line 84, second half, and line 85: the text reaches the file when write_text
\* closes it, and the result is returned
WriteText(p) ==
    /\ running[p].pc = "write"
    /\ cache' = write_text(cache, KeyOf(p), json_dumps(running[p].result))
    /\ running' = [ running EXCEPT ![p].pc = "returned" ]
    /\ UNCHANGED <<contract_type, clauses, last, repeat, ex_text, ex_out, engine, frame, session, reasoner, processor>>

NextRace ==
    \E p \in Callers :
        \/ CacheFileExists(p)
        \/ ReadText(p)
        \/ ComputeResult(p)
        \/ OpenForWriting(p)
        \/ WriteText(p)

SpecRace == InitRace /\ [][NextRace]_vars

-----------------------------------------------------------------------------
(* clause_extractor.py: ProductionClauseExtractor.                          *)

\* the characters the model's texts are made of, by class
Digits == { "0", "1", "2", "3", "4", "5", "6", "7", "8", "9" }
Letters == DOMAIN ToLower \cup { ToLower[c] : c \in DOMAIN ToLower }
\* what \s matches
Space == { " ", "\t", "\n", "\r" }
\* what [ \t] matches
Blank == { " ", "\t" }

\* the character at position i (from 1), "" outside the text
At(s, i) == IF i >= 1 /\ i <= Len(s) THEN s[i] ELSE ""

\* the one element of a one-element set: The({ e(v) : v \in {d} }) is e with v
\* standing for the value of d
The(S) == CHOOSE v \in S : TRUE

\* str.lstrip(): the text without its leading whitespace only
lstrip(s) ==
    SubSeq(s, CHOOSE j \in 1..(Len(s) + 1) :
                 At(s, j) \notin Space /\ \A k \in 1..(j - 1) : s[k] \in Space,
              Len(s))

\* str.strip(): the text without its leading and trailing whitespace
strip(s) ==
    LET first == CHOOSE j \in 1..(Len(s) + 1) :
                    At(s, j) \notin Space /\ \A k \in 1..(j - 1) : s[k] \in Space
        last_ == CHOOSE j \in 0..Len(s) :
                    At(s, j) \notin Space /\ \A k \in (j + 1)..Len(s) : s[k] \in Space
    IN  SubSeq(s, first, last_)

\* text.replace("\r", "")
remove_cr(text) == SelectSeq(text, LAMBDA c : c # "\r")

\* re.sub(r'[ \t]+', ' ', text): the first character of each run of spaces and tabs
\* stays, as a space
collapse_blanks(text) ==
    The({ [ i \in DOMAIN kept |-> IF kept[i][1] \in Blank THEN " " ELSE kept[i][1] ] :
            kept \in { SelectSeq([ i \in DOMAIN text |-> <<text[i], At(text, i - 1)>> ],
                                 LAMBDA m : ~(m[1] \in Blank /\ m[2] \in Blank)) } })

\* _clean_text: drop "\r", collapse each run of spaces and tabs to one space, strip
_clean_text(text) ==
    The({ The({ strip(collapsed) : collapsed \in { collapse_blanks(bare) } }) :
            bare \in { remove_cr(text) } })

\* _build_clause_type_patterns, in the order of the dict
clause_type_patterns == <<
    [ type |-> <<"t","e","r","m","i","n","a","t","i","o","n">>,
      keywords |-> << <<"t","e","r","m","i","n","a","t","e">>,
                      <<"t","e","r","m","i","n","a","t","i","o","n">>,
                      <<"n","o","t","i","c","e"," ","p","e","r","i","o","d">> >> ],
    [ type |-> <<"p","a","y","m","e","n","t">>,
      keywords |-> << <<"p","a","y","m","e","n","t">>,
                      <<"f","e","e","s">>,
                      <<"s","a","l","a","r","y">>,
                      <<"c","o","n","s","i","d","e","r","a","t","i","o","n">>,
                      <<"i","n","v","o","i","c","e">> >> ],
    [ type |-> <<"c","o","n","f","i","d","e","n","t","i","a","l","i","t","y">>,
      keywords |-> << <<"c","o","n","f","i","d","e","n","t","i","a","l">>,
                      <<"n","o","n","-","d","i","s","c","l","o","s","u","r","e">>,
                      <<"n","d","a">> >> ],
    [ type |-> <<"i","n","d","e","m","n","i","f","i","c","a","t","i","o","n">>,
      keywords |-> << <<"i","n","d","e","m","n","i","f","y">>,
                      <<"h","o","l","d"," ","h","a","r","m","l","e","s","s">> >> ],
    [ type |-> <<"l","i","m","i","t","a","t","i","o","n","_","o","f","_","l","i","a",
                "b","i","l","i","t","y">>,
      keywords |-> << <<"l","i","a","b","i","l","i","t","y">>,
                      <<"d","a","m","a","g","e","s">>,
                      <<"c","a","p"," ","o","n"," ","l","i","a","b","i","l","i","t","y">> >> ],
    [ type |-> <<"g","o","v","e","r","n","i","n","g","_","l","a","w">>,
      keywords |-> << <<"g","o","v","e","r","n","i","n","g"," ","l","a","w">>,
                      <<"j","u","r","i","s","d","i","c","t","i","o","n">>,
                      <<"c","o","u","r","t","s">> >> ],
    [ type |-> <<"i","n","t","e","l","l","e","c","t","u","a","l","_","p","r","o","p",
                "e","r","t","y">>,
      keywords |-> << <<"i","n","t","e","l","l","e","c","t","u","a","l"," ","p","r","o","p","e","r","t","y">>,
                      <<"i","p"," ","r","i","g","h","t","s">>,
                      <<"o","w","n","e","r","s","h","i","p">> >> ],
    [ type |-> <<"n","o","n","_","c","o","m","p","e","t","e">>,
      keywords |-> << <<"n","o","n","-","c","o","m","p","e","t","e">>,
                      <<"r","e","s","t","r","a","i","n","t"," ","o","f"," ","t","r","a","d","e">> >> ],
    [ type |-> <<"a","r","b","i","t","r","a","t","i","o","n">>,
      keywords |-> << <<"a","r","b","i","t","r","a","t","i","o","n">>,
                      <<"a","r","b","i","t","r","a","l"," ","t","r","i","b","u","n","a","l">> >> ] >>

general == <<"g","e","n","e","r","a","l">>

\* the first type of the table one of whose keywords is in the lowered text
first_type(text_l) ==
    The({ IF hits = {} THEN general
          ELSE clause_type_patterns[CHOOSE t \in hits : \A u \in hits : t <= u].type :
            hits \in { { t \in DOMAIN clause_type_patterns :
                           \E k \in DOMAIN clause_type_patterns[t].keywords :
                               Contains(clause_type_patterns[t].keywords[k], text_l) } } })

\* _infer_clause_type that looks for the keywords in the text as it is written
_infer_clause_type_cased(text) == first_type(text)

\* _infer_clause_type
_infer_clause_type(text) == The({ first_type(text_l) : text_l \in { Lower(text) } })

\* _generate_id: the first 12 hex digits of the md5 of the text
_generate_id(text) == <<"md5", text>>

\* Clause(...) whose id is taken from the number and the text
Clause_numbered(number, title, type, full_text) ==
    [ id |-> _generate_id(number \o full_text), number |-> number, title |-> title,
      type |-> type, full_text |-> full_text ]

\* Clause(...) and _to_dict
Clause(number, title, type, full_text) ==
    [ id |-> _generate_id(full_text), number |-> number, title |-> title,
      type |-> type, full_text |-> full_text ]

\* the first position from i on whose character is not in the class
Skip(s, i, class) ==
    CHOOSE j \in i..(Len(s) + 1) :
        At(s, j) \notin class /\ \A k \in i..(j - 1) : s[k] \in class

\* the first position from i on that holds "\n", Len(s) + 1 when none does
LineEnd(s, i) ==
    CHOOSE j \in i..(Len(s) + 1) :
        (j = Len(s) + 1 \/ s[j] = "\n") /\ \A k \in i..(j - 1) : s[k] # "\n"

\* s has the lower-case word w at position i, in any case (re.IGNORECASE)
HasWord(s, i, w) ==
    /\ i + Len(w) - 1 <= Len(s)
    /\ \A k \in DOMAIN w : LowerChar(s[i + k - 1]) = w[k]

\* (?:Clause|Section)? : the length of the label at position i, 0 without one
Label(s, i) ==
    IF HasWord(s, i, <<"c","l","a","u","s","e">>) THEN 6
    ELSE IF HasWord(s, i, <<"s","e","c","t","i","o","n">>) THEN 7
    ELSE 0

RECURSIVE Groups(_, _)
\* (?:\.\d+)* from position c: the position after the last ".digits" group
Groups(s, c) ==
    IF At(s, c) = "." /\ At(s, c + 1) \in Digits
    THEN Groups(s, Skip(s, c + 1, Digits))
    ELSE c

\* (?:Clause|Section)?\s*\d+(?:\.\d+)* from position q: the position after it, 0 on no match
Alt1End(s, q) ==
    LET d == Skip(s, q + Label(s, q), Space)
    IN  IF At(s, d) \in Digits THEN Groups(s, Skip(s, d, Digits)) ELSE 0

\* \d+\. from position q: the position after it, 0 on no match
Alt2End(s, q) ==
    LET c == Skip(s, q, Digits)
    IN  IF At(s, q) \in Digits /\ At(s, c) = "." THEN c + 1 ELSE 0

\* the longest title: [A-Z] and at most this many further characters of the line
TitleMax == 80

\* \s*(?P<title>[A-Z][^\n]{0,80})?\n from position r: where the title is (from, to;
\* to < from without one) and where the body starts; ok is FALSE on no match.
\* The title is taken when the whitespace run ends at a letter and the line from
\* there, at most 1 + TitleMax long, ends in "\n"; otherwise \s* gives back to its
\* last "\n" and there is no title.
Rest(s, r) ==
    LET w    == Skip(s, r, Space)
        eol  == LineEnd(s, w)
        nls  == { k \in r..(w - 1) : s[k] = "\n" }
    IN  IF At(s, w) \in Letters /\ At(s, eol) = "\n" /\ eol - w - 1 <= TitleMax
        THEN [ ok |-> TRUE, from |-> w, to |-> eol - 1, body |-> eol + 1 ]
        ELSE IF nls # {}
        THEN [ ok |-> TRUE, from |-> 1, to |-> 0,
               body |-> (CHOOSE k \in nls : \A j \in nls : k >= j) + 1 ]
        ELSE [ ok |-> FALSE, from |-> 1, to |-> 0, body |-> 0 ]

\* the lookahead (?=\n(?:Clause|Section)?\s*\d+(?:\.\d+)*|\Z) at position e
Lookahead(s, e) ==
    \/ e = Len(s) + 1
    \/ /\ At(s, e) = "\n"
       /\ At(s, Skip(s, e + 1 + Label(s, e + 1), Space)) \in Digits

\* the number group from position q: the first of the two alternatives after which
\* the pattern can go on, as the position after it; 0 when neither can
NumberEnd(s, q) ==
    LET r1 == Alt1End(s, q)
        r2 == Alt2End(s, q)
    IN  IF r1 > 0 /\ Rest(s, r1).ok THEN r1
        ELSE IF r2 > 0 /\ Rest(s, r2).ok THEN r2 ELSE 0

\* where the number group starts in a match at position p: (?:^|\n) at the start
\* of the text or over a "\n"; 0 when the pattern does not match at p
NumberStart(s, p) ==
    IF p = 1 /\ NumberEnd(s, 1) > 0 THEN 1
    ELSE IF At(s, p) = "\n" /\ NumberEnd(s, p + 1) > 0 THEN p + 1
    ELSE 0

\* (?P<body>.*?) from position b: lazy, it ends before the first position from
\* b on that the lookahead accepts
BodyEnd(s, b) ==
    CHOOSE e \in b..(Len(s) + 1) : Lookahead(s, e) /\ \A k \in b..(e - 1) : ~Lookahead(s, k)

\* the match whose number group is s[q..r-1]
MatchOf(s, q, r) ==
    The({ The({ [ number |-> SubSeq(s, q, r - 1),
                  title  |-> SubSeq(s, rest.from, rest.to),
                  body   |-> SubSeq(s, rest.body, e - 1),
                  end    |-> e ] : e \in { BodyEnd(s, rest.body) } }) :
            rest \in { Rest(s, r) } })

\* the match at position p, where the pattern matches
MatchAt(s, p) ==
    The({ The({ MatchOf(s, q, r) : r \in { NumberEnd(s, q) } }) : q \in { NumberStart(s, p) } })

RECURSIVE finditer(_, _)
\* pattern.finditer(text) from position pos on: the matches, left to right
finditer(s, pos) ==
    The({ IF starts = {} THEN <<>>
          ELSE The({ <<m>> \o finditer(s, m.end) :
                       m \in { MatchAt(s, CHOOSE p \in starts : \A u \in starts : p <= u) } }) :
            starts \in { { p \in pos..Len(s) : NumberStart(s, p) > 0 } } })

\* the clause of one match: number, title and body stripped,
\* full_text = f"{number} {title}\n{body}".strip()
numbered_clause(m) ==
    The({ The({ Clause(number, title_, _infer_clause_type(full_text), full_text) :
                  full_text \in { strip(number \o <<" ">> \o title_ \o <<"\n">> \o body) } }) :
            number \in { strip(m.number) }, title_ \in { strip(m.title) },
            body \in { strip(m.body) } })

\* _extract_numbered_clauses
_extract_numbered_clauses(text) ==
    The({ [ i \in DOMAIN ms |-> numbered_clause(ms[i]) ] : ms \in { finditer(text, 1) } })

\* a paragraph is kept when its stripped length is above this
ParagraphMin == 200

RECURSIVE split(_, _)
\* re.split(r'\n{2,}', text) from position pos on
split(s, pos) ==
    LET seps == { i \in pos..(Len(s) - 1) : s[i] = "\n" /\ s[i + 1] = "\n" }
    IN  IF seps = {} THEN << SubSeq(s, pos, Len(s)) >>
        ELSE LET i == CHOOSE k \in seps : \A u \in seps : k <= u
             IN  << SubSeq(s, pos, i - 1) >> \o split(s, Skip(s, i, {"\n"}))

RECURSIVE decimal(_)
\* str(n) for n >= 0
decimal(n) ==
    LET digit == <<"0","1","2","3","4","5","6","7","8","9">>
    IN  IF n < 10 THEN << digit[n + 1] >> ELSE decimal(n \div 10) \o << digit[(n % 10) + 1] >>

\* str.replace("_", " ")
replace_underscore(s) == [ i \in DOMAIN s |-> IF s[i] = "_" THEN " " ELSE s[i] ]

\* str.title(): a letter after a non-letter in upper case, the other letters in lower case
title(s) ==
    [ i \in DOMAIN s |->
        IF At(s, i - 1) \in Letters THEN LowerChar(s[i])
        ELSE IF \E u \in DOMAIN ToLower : ToLower[u] = s[i]
             THEN CHOOSE u \in DOMAIN ToLower : ToLower[u] = s[i]
             ELSE s[i] ]

\* a stripped paragraph is kept from ParagraphMin characters on
keeps_from_min(p) == Len(p) >= ParagraphMin

\* if len(p.strip()) > 200, for the stripped paragraph p
keeps(p) == Len(p) > ParagraphMin

\* the clause of the idx-th kept paragraph
paragraph_clause(idx, para) ==
    The({ Clause(<<"P">> \o decimal(idx), title(replace_underscore(clause_type)),
                 clause_type, para) :
            clause_type \in { _infer_clause_type(para) } })

\* _extract_paragraph_clauses
_extract_paragraph_clauses(text) ==
    The({ [ idx \in DOMAIN paragraphs |-> paragraph_clause(idx, paragraphs[idx]) ] :
            paragraphs \in { SelectSeq([ i \in DOMAIN pieces |-> strip(pieces[i]) ],
                                       LAMBDA p : keeps(p)) :
                               pieces \in { split(text, 1) } } })

\* the numbered strategy's result is used from this many clauses on
NumberedMin == 3

\* if not clauses or len(clauses) < 3
use_fallback_at_three(cs) == cs = <<>> \/ Len(cs) <= NumberedMin
use_fallback(cs) == cs = <<>> \/ Len(cs) < NumberedMin

\* extract_clauses
extract_clauses(text) ==
    The({ The({ IF use_fallback(numbered) THEN _extract_paragraph_clauses(cleaned)
                ELSE numbered :
                  numbered \in { _extract_numbered_clauses(cleaned) } }) :
            cleaned \in { _clean_text(text) } })

-----------------------------------------------------------------------------
(* SpecExtract: extract_clauses on texts put together from a few pieces.    *)

\* n characters of running text
Pad(n) == [ i \in 1..n |-> "x" ]

fPayment ==
    <<"1","."," "," ","P","a","y","m","e","n","t","\n","F","e","e","s"," ","a","r","e",
    " ","d","u","e"," ","o","n"," ","i","n","v","o","i","c","e",".","\n">>
fTermination ==
    <<"S","e","c","t","i","o","n"," ","2"," ","T","e","r","m","i","n","a","t","i","o",
    "n","\r","\n","E","i","t","h","e","r"," ","p","a","r","t","y"," ","m","a","y"," ",
    "t","e","r","m","i","n","a","t","e",".","\n">>
fLaw ==
    <<"3",".","1"," ","G","o","v","e","r","n","i","n","g"," ","L","a","w","\n","\t","C",
    "o","u","r","t","s"," ","o","f"," ","I","n","d","i","a",".","\n">>
fAmount ==
    <<"7",","," ","a","s"," ","a","g","r","e","e","d","\n">>
\* paragraphs of ParagraphMin and ParagraphMin + 1 characters
fExact == <<" ">> \o Pad(ParagraphMin) \o <<" ","\n","\n","\n">>
fLong == <<"W","e"," ","i","n","d","e","m","n","i","f","y"," ">> \o Pad(ParagraphMin - 12) \o <<"\n","\n">>

Fragments == { fPayment, fTermination, fLaw, fAmount, fExact, fLong }

\* the most pieces a text is made of
MaxFragments == 3

RECURSIVE Concat(_)
Concat(fs) == IF fs = <<>> THEN <<>> ELSE Head(fs) \o Concat(Tail(fs))

Texts == { Concat(fs) : fs \in UNION { [1..n -> Fragments] : n \in 0..MaxFragments } }

InitExtract ==
    /\ contract_type = None
    /\ clauses = <<>>
    /\ cache = EmptyDict
    /\ last = NoCall
    /\ repeat = NoCall
    /\ ex_text \in Texts
    /\ ex_out = NoExtract
    /\ running = <<>>
    /\ engine = ProductionRiskEngine
    /\ frame = NoFrame
    /\ session = NoSession
    /\ reasoner = NoReasoner
    /\ processor = NoProcessor

\* ProductionClauseExtractor().extract_clauses(ex_text)
\* (previous holds what the call before returned for the same text, if there was one)
ExtractClauses ==
    /\ ex_out' = [ outcome  |-> "returned", clauses |-> extract_clauses(ex_text),
                   previous |-> IF ex_out.outcome = "returned"
                                THEN << ex_out.clauses >> ELSE << >> ]
    /\ UNCHANGED <<contract_type, clauses, cache, last, repeat, ex_text, running, engine, frame, session, reasoner, processor>>

NextExtract == ExtractClauses

SpecExtract == InitExtract /\ [][NextExtract]_vars

-----------------------------------------------------------------------------
(* SpecInfer: _infer_clause_type on texts put together from a few words.    *)

\* words with a keyword of each type of the table (one inside another word, in
\* "fundamental"), and words without any
wTerminate == <<"T","e","r","m","i","n","a","t","e"," ">>
wSalary == <<"s","a","l","a","r","y"," ">>
wNda == <<"N","D","A"," ">>
wIndemnify == <<"s","h","a","l","l"," ","I","n","d","e","m","n","i","f","y"," ">>
wDamages == <<"d","a","m","a","g","e","s"," ">>
wCourts == <<"C","o","u","r","t","s"," ">>
wOwnership == <<"o","w","n","e","r","s","h","i","p"," ">>
wNonCompete == <<"N","o","n","-","C","o","m","p","e","t","e"," ">>
wArbitration == <<"a","r","b","i","t","r","a","t","i","o","n"," ">>
wHereby == <<"h","e","r","e","b","y"," ">>
wFundamental == <<"f","u","n","d","a","m","e","n","t","a","l"," ">>
wIndemnification == <<"i","n","d","e","m","n","i","f","i","c","a","t","i","o","n"," ">>

Words == { wTerminate, wSalary, wNda, wIndemnify, wDamages, wCourts,
           wOwnership, wNonCompete, wArbitration, wHereby, wFundamental, wIndemnification }

\* the most words a text is made of
MaxWords == 2

WordTexts == { Concat(ws) : ws \in UNION { [1..n -> Words] : n \in 0..MaxWords } }

InitInfer ==
    /\ contract_type = None
    /\ clauses = <<>>
    /\ cache = EmptyDict
    /\ last = NoCall
    /\ repeat = NoCall
    /\ ex_text \in WordTexts
    /\ ex_out = NoExtract
    /\ running = <<>>
    /\ engine = ProductionRiskEngine
    /\ frame = NoFrame
    /\ session = NoSession
    /\ reasoner = NoReasoner
    /\ processor = NoProcessor

\* ProductionClauseExtractor()._infer_clause_type(ex_text)
InferClauseType ==
    /\ ex_out' = [ outcome |-> "typed", type |-> _infer_clause_type(ex_text) ]
    /\ UNCHANGED <<contract_type, clauses, cache, last, repeat, ex_text, running, engine, frame, session, reasoner, processor>>

NextInfer == InferClauseType

SpecInfer == InitInfer /\ [][NextInfer]_vars

-----------------------------------------------------------------------------
(* Properties of evaluate_clause and evaluate_contract.                     *)

\* the elements of a sequence
Range(s) == { s[i] : i \in DOMAIN s }

\* k is a contiguous sub-sequence of t
Occurs(k, t) == \E i \in 1..(Len(t) - Len(k) + 1) : SubSeq(t, i, i + Len(k) - 1) = k

\* the text a clause record carries, empty when it carries none
TextOf(clause) == IF clause.full_text.kind = "str" THEN clause.full_text.chars ELSE <<>>

\* the table rows one of whose keywords occurs in the lower-cased text
Triggered(clause) ==
    { i \in DOMAIN patterns :
        \E k \in Range(patterns[i].keywords) : Occurs(k, Lower(TextOf(clause))) }

\* the multiplier (in tenths) the weight table gives a factor, 1.0 when it has none
Multiplier(ct, factor) ==
    IF ct \in DOMAIN weights /\ factor \in DOMAIN weights[ct] THEN weights[ct][factor] ELSE 10

RECURSIVE WeightedSum(_, _)
\* the sum over a set of table rows of base score x multiplier, in hundredths
WeightedSum(rows, ct) ==
    IF rows = {} THEN 0
    ELSE LET i == CHOOSE r \in rows : TRUE
         IN  patterns[i].base_score * Multiplier(ct, patterns[i].risk) * 10
               + WeightedSum(rows \ {i}, ct)

\* the j-th smallest element of a set of numbers
Nth(S, j) == CHOOSE x \in S : Cardinality({ y \in S : y < x }) = j - 1

RECURSIVE SumScores(_)
\* the sum of the risk_score fields of a sequence of clause results
SumScores(rs) == IF rs = <<>> THEN 0 ELSE Head(rs).risk_score + SumScores(Tail(rs))

\* how many results of a sequence are High
HighCount(rs) == Cardinality({ i \in DOMAIN rs : rs[i].risk_level = "High" })

\* x is the hundredth nearest to num/den (either neighbour at an exact tie)
Nearest(x, num, den) == 2 * (x * den - num) <= den /\ 2 * (num - x * den) <= den

ClauseReturned == last.op = "evaluate_clause" /\ last.outcome = "returned"
ContractCalled == last.op = "evaluate_contract"
ContractReturned == ContractCalled /\ last.outcome = "returned"

\* C1: a clause's risk_score is min(100, sum over the triggered factors of
\* base score x contract-type multiplier, 1.0 where the type has none), and its
\* risk_factors are the triggered factors in table order, each with the table's
\* description and mitigation.
C1_ClauseScoreIsCappedWeightedSum ==
    ClauseReturned =>
        LET rows == Triggered(last.clause)
            rf   == last.result.risk_factors
        IN  /\ last.result.risk_score = Min(100 * 100, WeightedSum(rows, contract_type))
            /\ Len(rf) = Cardinality(rows)
            /\ \A j \in DOMAIN rf :
                  rf[j] = [ risk        |-> patterns[Nth(rows, j)].risk,
                            description |-> patterns[Nth(rows, j)].description,
                            mitigation  |-> patterns[Nth(rows, j)].mitigation ]

\* a clause with two factors, one of them weighted 1.5, was scored 42.5
C1_Witness ==
    /\ ClauseReturned
    /\ ~last.hit
    /\ Len(last.result.risk_factors) = 2
    /\ last.result.risk_score = 4250

\* C2: every clause score and the contract score lie in [0, 100].
C2_ScoresWithinRange ==
    ContractCalled =>
        /\ \A i \in DOMAIN last.clause_results :
              /\ last.clause_results[i].risk_score >= 0
              /\ last.clause_results[i].risk_score <= 100 * 100
        /\ last.outcome = "returned" =>
              /\ last.result.contract_score >= 0
              /\ last.result.contract_score <= 100 * 100

\* a mean below 100 that the 1.3 multiplier takes above 100 came out as 100
C2_Witness ==
    /\ ContractReturned
    /\ Len(clauses) > 0
    /\ HighCount(last.clause_results) >= 3
    /\ SumScores(last.clause_results) < 100 * 100 * Len(clauses)
    /\ SumScores(last.clause_results) * 13 > 100 * 100 * 10 * Len(clauses)
    /\ last.result.contract_score = 100 * 100

\* the level the thresholds hi and med give a score
LevelOf(score, hi, med) ==
    IF score >= hi THEN "High" ELSE IF score >= med THEN "Medium" ELSE "Low"

\* C3: risk_level is a function of the returned score: a clause is High at 70 or
\* more, Medium at 40 or more, else Low; a contract is High at 60 or more,
\* Medium at 30 or more, else Low (thresholds inclusive).
C3_LevelFollowsReturnedScore ==
    ContractReturned =>
        /\ \A i \in DOMAIN last.clause_results :
              last.clause_results[i].risk_level
                 = LevelOf(last.clause_results[i].risk_score, 70 * 100, 40 * 100)
        /\ last.result.contract_level
                 = LevelOf(last.result.contract_score, 60 * 100, 30 * 100)

\* C4: with fewer than three High clauses, contract_score is the mean of the
\* clause scores rounded to 2 decimals, and 0 for an empty list.
C4_ContractScoreIsRoundedMean ==
    (ContractReturned /\ HighCount(last.clause_results) < 3) =>
        /\ Len(last.clause_results) = Len(clauses)
        /\ Len(clauses) = 0 => last.result.contract_score = 0
        /\ Len(clauses) > 0 =>
              Nearest(last.result.contract_score,
                      SumScores(last.clause_results), Len(clauses))

\* scores 70, 40 and 0 (two High would not change it) came out as 36.67
C4_Witness ==
    /\ ContractReturned
    /\ Len(clauses) = 3
    /\ HighCount(last.clause_results) < 3
    /\ SumScores(last.clause_results) = 11000
    /\ last.result.contract_score = 3667

\* C5: the mean is multiplied by 1.3 exactly when three or more clauses of the
\* whole list are High, before the result is capped at 100; three clauses
\* scoring 70 each give 91 and High.
C5_EscalationAtThreeHigh ==
    (ContractReturned /\ Len(clauses) > 0) =>
        LET total == SumScores(last.clause_results)
            n     == Len(clauses)
            score == last.result.contract_score
        IN  /\ HighCount(last.clause_results) >= 3 =>
                  IF total * 13 > 100 * 100 * 10 * n
                  THEN score = 100 * 100
                  ELSE Nearest(score, total * 13, 10 * n)
            /\ HighCount(last.clause_results) < 3 => Nearest(score, total, n)
            /\ (n = 3 /\ \A i \in 1..3 : last.clause_results[i].risk_score = 70 * 100) =>
                  score = 91 * 100 /\ last.result.contract_level = "High"

\* three clauses scoring 70 each gave 91, High
C5_Witness ==
    /\ ContractReturned
    /\ Len(clauses) = 3
    /\ \A i \in 1..3 : last.clause_results[i].risk_score = 70 * 100
    /\ last.result.contract_score = 91 * 100
    /\ last.result.contract_level = "High"

\* C6: the cache never changes a result: what evaluate_clause returns equals
\* what it would return with caching disabled.
C6_CacheNeverChangesResult ==
    ClauseReturned => last.result = compute_result(last.clause, lowered[last.clause], contract_type)

\* C7: two consecutive calls with the same clause and contract type return the
\* same result, the first computed and written to the cache, the second read
\* back from it.
C7_RepeatedCallSameResult ==
    (ClauseReturned /\ repeat.op = "evaluate_clause" /\ repeat.outcome = "returned") =>
        /\ last.result = repeat.result
        /\ last.hit
        /\ cache_key(lowered[last.clause], contract_type) \in DOMAIN cache
        /\ last.result = json_loads(cache[cache_key(lowered[last.clause], contract_type)])

\* a result with a fractional score was computed by one call, read back by the next
C7_Witness ==
    /\ ClauseReturned
    /\ repeat.op = "evaluate_clause" /\ repeat.outcome = "returned"
    /\ ~repeat.hit
    /\ last.hit
    /\ last.result.risk_score % 100 # 0
    /\ Len(last.result.risk_factors) > 0

\* C9: an empty clause list gives contract_score 0, level Low, an empty factor
\* map and empty high and medium lists, without raising.
C9_EmptyListScoresZero ==
    (ContractCalled /\ clauses = <<>>) =>
        /\ last.outcome = "returned"
        /\ last.result.contract_score = 0
        /\ last.result.contract_level = "Low"
        /\ DOMAIN last.result.risk_factors = {}
        /\ last.result.high_risk_clauses = <<>>
        /\ last.result.medium_risk_clauses = <<>>

\* evaluate_contract returned for the empty list
C9_Witness == ContractReturned /\ clauses = <<>> /\ last.clause_results = <<>>

\* C10: a clause whose full_text is absent, null or empty scores 0, is Low and
\* has no risk factors; evaluate_clause never raises on a missing text.
C10_MissingTextScoresZero ==
    (last.op = "evaluate_clause" /\ TextOf(last.clause) = <<>>) =>
        /\ last.outcome = "returned"
        /\ last.result.risk_score = 0
        /\ last.result.risk_level = "Low"
        /\ last.result.risk_factors = <<>>

\* the stripped blank-line-delimited paragraphs of a text
ParagraphsOf(text) == { strip(p) : p \in Range(split(text, 1)) }

\* C8: extract_clauses returns the numbered strategy's clauses unchanged when
\* there are 3 or more of them; with fewer (0, 1 or 2) none of them is returned
\* and every returned clause is a paragraph clause (numbered P<k>, its text a
\* paragraph of the cleaned input) whose text is longer than 200 characters.
C8_NumberedFromThreeElseParagraphs ==
    ex_out.outcome = "returned" =>
        LET cleaned  == _clean_text(ex_text)
            numbered == _extract_numbered_clauses(cleaned)
        IN  /\ Len(numbered) >= 3 => ex_out.clauses = numbered
            /\ Len(numbered) < 3 =>
                  \A i \in DOMAIN ex_out.clauses :
                     /\ ex_out.clauses[i] \notin Range(numbered)
                     /\ ex_out.clauses[i].number = <<"P">> \o decimal(i)
                     /\ ex_out.clauses[i].full_text \in ParagraphsOf(cleaned)
                     /\ Len(ex_out.clauses[i].full_text) > 200

\* one or two numbered clauses were found and dropped for paragraph clauses
C8_Witness ==
    /\ ex_out.outcome = "returned"
    /\ Len(_extract_numbered_clauses(_clean_text(ex_text))) \in {1, 2}
    /\ Len(ex_out.clauses) >= 1
    /\ ex_out.clauses[1].number = <<"P", "1">>

RECURSIVE BaseSum(_)
\* the sum over a set of table rows of the base scores, in hundredths
BaseSum(rows) ==
    IF rows = {} THEN 0
    ELSE LET i == CHOOSE r \in rows : TRUE
         IN  patterns[i].base_score * 100 + BaseSum(rows \ {i})

\* the rows among a set for which the weight table of a contract type has an entry
Weighted(rows, ct) ==
    IF ct \in DOMAIN weights
    THEN { i \in rows : patterns[i].risk \in DOMAIN weights[ct] }
    ELSE {}

\* C11: for a contract type that is no key of the weight table (None included)
\* and for every factor the type's row has no entry for, evaluate_clause uses
\* the multiplier 1.0 and returns a normal result: the score is the capped sum
\* of the weighted entries plus the plain base scores of the other factors.
C11_MissingWeightCountsAsOne ==
    (last.op = "evaluate_clause" /\ last.clause.full_text.kind # "null") =>
        LET rows == Triggered(last.clause)
            with == Weighted(rows, contract_type)
        IN  /\ last.outcome = "returned"
            /\ contract_type \notin DOMAIN weights =>
                  last.result.risk_score = Min(100 * 100, BaseSum(rows))
            /\ last.result.risk_score
                  = Min(100 * 100, WeightedSum(with, contract_type) + BaseSum(rows \ with))

\* three factors were scored 18 + 22 + 30 = 70 under the contract type None
C11_Witness ==
    /\ ClauseReturned
    /\ ~last.hit
    /\ contract_type = None
    /\ Len(last.result.risk_factors) = 3
    /\ last.result.risk_score = 70 * 100

\* the types in the order the table is searched
TypeOrder ==
    << <<"t","e","r","m","i","n","a","t","i","o","n">>,
       <<"p","a","y","m","e","n","t">>,
       <<"c","o","n","f","i","d","e","n","t","i","a","l","i","t","y">>,
       <<"i","n","d","e","m","n","i","f","i","c","a","t","i","o","n">>,
       <<"l","i","m","i","t","a","t","i","o","n","_","o","f","_","l","i","a","b","i","l","i","t","y">>,
       <<"g","o","v","e","r","n","i","n","g","_","l","a","w">>,
       <<"i","n","t","e","l","l","e","c","t","u","a","l","_","p","r","o","p","e","r","t","y">>,
       <<"n","o","n","_","c","o","m","p","e","t","e">>,
       <<"a","r","b","i","t","r","a","t","i","o","n">> >>

\* the positions in TypeOrder of the types a keyword of which occurs in the
\* lower-cased text
TypesIn(text) ==
    { n \in DOMAIN TypeOrder :
        \E r \in DOMAIN clause_type_patterns :
            /\ clause_type_patterns[r].type = TypeOrder[n]
            /\ \E k \in Range(clause_type_patterns[r].keywords) : Occurs(k, Lower(text)) }

\* C12: _infer_clause_type returns the first type, in the order termination,
\* payment, confidentiality, indemnification, limitation_of_liability,
\* governing_law, intellectual_property, non_compete, arbitration, a keyword of
\* which is a substring of the lower-cased text, and general when there is
\* none; a text with "indemnify" and no keyword of another type is typed
\* indemnification.
C12_FirstTypeInTableOrder ==
    ex_out.outcome = "typed" =>
        LET found == TypesIn(ex_text)
        IN  /\ found = {} => ex_out.type = general
            /\ found # {} => ex_out.type = TypeOrder[Nth(found, 1)]
            /\ (found = {4} /\ Occurs(<<"i","n","d","e","m","n","i","f","y">>, Lower(ex_text))) =>
                  ex_out.type = TypeOrder[4]

\* "salary Terminate " was typed termination, the earlier type of the table
C12_Witness ==
    /\ ex_out.outcome = "typed"
    /\ ex_text = wSalary \o wTerminate
    /\ ex_out.type = TypeOrder[1]

\* C13: when a clause's text gets one more occurrence of a keyword that already
\* triggers a factor in it, wherever the occurrence is put, evaluate_clause gives
\* the new text a risk_score that is at least the score of the original text.
C13_AddedKeywordNeverLowersScore ==
    (/\ ContractReturned
     /\ Len(clauses) = 2
     /\ clauses[1].full_text.kind = "str"
     /\ clauses[2] \in Additions(clauses[1])) =>
        last.clause_results[2].risk_score >= last.clause_results[1].risk_score

\* "Employee shall be liable for unlimited liability for all damages" was
\* evaluated under vendor_contract
LiableScenario ==
    /\ ClauseReturned
    /\ contract_type = "vendor_contract"
    /\ TextOf(last.clause) = cLiable.full_text.chars

\* the scenario's text triggers unlimited_liability, weighted 2.2, which
\* contributes 30 x 2.2 = 66 to the score
LiableContribution ==
    /\ \E j \in DOMAIN last.result.risk_factors :
          last.result.risk_factors[j].risk = "unlimited_liability"
    /\ weights.vendor_contract.unlimited_liability = 22
    /\ last.result.risk_score
          = 30 * 22 * 10 + WeightedSum({ i \in Triggered(last.clause) :
                                           patterns[i].risk # "unlimited_liability" },
                                       contract_type)

\* C14 (as stated): evaluating "Employee shall be liable for unlimited liability
\* for all damages" under vendor_contract triggers unlimited_liability with
\* weight 2.2, contributing 30 x 2.2 = 66, and the clause's risk_level is High.
C14_LiableScenarioIsHigh ==
    LiableScenario => (LiableContribution /\ last.result.risk_level = "High")

\* C14 (amended): the same evaluation triggers unlimited_liability alone, with
\* weight 2.2, contributing 30 x 2.2 = 66; the clause's risk_score is 66 and its
\* risk_level is Medium (High starts at 70).
C14_LiableScenarioIsMedium ==
    LiableScenario =>
        /\ LiableContribution
        /\ Len(last.result.risk_factors) = 1
        /\ last.result.risk_score = 66 * 100
        /\ last.result.risk_level = "Medium"

\* the scenario's clause was computed, not read from the cache
C14_Witness == LiableScenario /\ ~last.hit /\ last.clause = cLiable

C16_NothingToExtractGivesEmptyList ==
    LET cleaned == _clean_text(ex_text)
    IN  (/\ ex_out.outcome # "none"
         /\ \/ ex_text = <<>>
            \/ /\ Len(_extract_numbered_clauses(cleaned)) < 3
               /\ \A p \in ParagraphsOf(cleaned) : Len(p) <= 200) =>
            (ex_out.outcome = "returned" /\ ex_out.clauses = <<>>)

\* a text with a numbered clause and a paragraph of exactly 200 characters gave
\* the empty list
C16_Witness ==
    /\ ex_out.outcome = "returned"
    /\ ex_out.clauses = <<>>
    /\ Len(_extract_numbered_clauses(_clean_text(ex_text))) \in {1, 2}
    /\ \E p \in ParagraphsOf(_clean_text(ex_text)) : Len(p) = 200

\* the nine types of the table and general
TenTypes == Range(TypeOrder) \cup { <<"g","e","n","e","r","a","l">> }

\* C17: every clause extract_clauses returns, from either strategy, has a
\* full_text that is not empty and neither starts nor ends with whitespace, and
\* a type that is one of the ten categories.
C17_ClausesAreTrimmedAndTyped ==
    ex_out.outcome = "returned" =>
        \A i \in DOMAIN ex_out.clauses :
            LET c == ex_out.clauses[i]
            IN  /\ Len(c.full_text) > 0
                /\ c.full_text[1] \notin { " ", "\t", "\n", "\r" }
                /\ c.full_text[Len(c.full_text)] \notin { " ", "\t", "\n", "\r" }
                /\ c.type \in TenTypes

\* three or more numbered clauses were returned, "3.1" among them, whose body
\* stood after a tab in the input
C17_Witness ==
    /\ ex_out.outcome = "returned"
    /\ Len(ex_out.clauses) >= 3
    /\ \E i \in DOMAIN ex_out.clauses : ex_out.clauses[i].number = <<"3", ".", "1">>

\* C18: the result evaluate_clause returns for a clause is the same whether or
\* not other clauses were evaluated before it: it is the result the call gives
\* on an engine that has evaluated nothing yet.
C18_ResultIndependentOfOtherCalls ==
    ClauseReturned =>
        last.result = evaluate_clause(last.clause, contract_type, EmptyDict).result

\* C19: when several evaluate_clause calls with the same cache key run side by
\* side, no caller fails, every caller that has returned has the correct result,
\* and once all have returned the cache file holds that result.
C19_ConcurrentCallsAgree ==
    running # <<>> =>
        /\ \A p \in Callers :
            /\ running[p].pc # "raised"
            /\ running[p].pc = "returned" =>
                   running[p].result = computed[running[p].clause][contract_type]
        /\ (\A p \in Callers : running[p].pc = "returned") =>
               \A p \in Callers :
                   /\ KeyOf(p) \in DOMAIN cache
                   /\ cache[KeyOf(p)] = json_dumps(computed[running[p].clause][contract_type])

\* C20: the operations are side-effect free: a call changes nothing but the value
\* it returns; in particular no call changes the persistent storage (the files of
\* cache/risk).
C20_CallsLeaveStorageUnchanged == [][cache' = cache]_vars

\* the results of a sequence that have the given level, in the sequence's order
OfLevel(rs, level) == SelectSeq(rs, LAMBDA r : r.risk_level = level)

\* C21: high_risk_clauses is the first 3 High clause results in document order and
\* medium_risk_clauses the first 5 Medium ones; each list holds results of its own
\* level only; the results left out still count for the mean and for the
\* escalation rule, which run over all n clause results.
C21_TopListsAreFirstSeen ==
    ContractReturned =>
        LET rs    == last.clause_results
            high  == last.result.high_risk_clauses
            med   == last.result.medium_risk_clauses
            total == SumScores(rs)
            n     == Len(clauses)
        IN  /\ high = SubSeq(OfLevel(rs, "High"), 1, Min(3, Len(OfLevel(rs, "High"))))
            /\ med = SubSeq(OfLevel(rs, "Medium"), 1, Min(5, Len(OfLevel(rs, "Medium"))))
            /\ \A i \in DOMAIN high : high[i].risk_level = "High"
            /\ \A i \in DOMAIN med : med[i].risk_level = "Medium"
            /\ Len(rs) = n
            /\ n > 0 =>
                  IF Len(OfLevel(rs, "High")) >= 3
                  THEN \/ Nearest(last.result.contract_score, total * 13, 10 * n)
                       \/ /\ total * 13 > 100 * 100 * 10 * n
                          /\ last.result.contract_score = 100 * 100
                  ELSE Nearest(last.result.contract_score, total, n)

\* four High results of two different clauses and six Medium results: the fourth
\* High and the sixth Medium are left out of the lists
C21_Witness ==
    /\ ContractReturned
    /\ Len(OfLevel(last.clause_results, "High")) > 3
    /\ Len(OfLevel(last.clause_results, "Medium")) > 5
    /\ Len(last.result.high_risk_clauses) = 3
    /\ Len(last.result.medium_risk_clauses) = 5
    /\ last.result.high_risk_clauses[1] # last.result.high_risk_clauses[3]

\* the positions of the clause list whose clause triggers the factor `name`
ClausesTriggering(name) ==
    { k \in DOMAIN clauses : \E i \in Triggered(clauses[k]) : patterns[i].risk = name }

\* C22: the risk_factors map of evaluate_contract has a key for exactly the
\* factors that at least one clause of the list triggers, and gives each the number
\* of clauses of the list that trigger it (a clause that occurs twice counts
\* twice) and the factor's description.
C22_FactorMapCountsClauses ==
    ContractReturned =>
        LET fm == last.result.risk_factors
        IN  /\ DOMAIN fm = { patterns[i].risk : i \in
                               UNION { Triggered(clauses[k]) : k \in DOMAIN clauses } }
            /\ \A i \in DOMAIN patterns :
                  patterns[i].risk \in DOMAIN fm =>
                      /\ fm[patterns[i].risk].count
                            = Cardinality(ClausesTriggering(patterns[i].risk))
                      /\ fm[patterns[i].risk].description = patterns[i].description

\* a document with the same clause twice and another clause sharing one of its
\* factors: that factor is counted 3, a factor of the repeated clause alone 2
C22_Witness ==
    /\ ContractReturned
    /\ Len(clauses) = 3
    /\ clauses[1] = clauses[3]
    /\ clauses[1] # clauses[2]
    /\ \E name \in DOMAIN last.result.risk_factors :
          last.result.risk_factors[name].count = 3
    /\ \E name \in DOMAIN last.result.risk_factors :
          last.result.risk_factors[name].count = 2

\* C23: the clauses of the paragraph fallback are numbered P1, P2, ... by their
\* position among the paragraphs that are kept, without gaps, and have an empty
\* title.
C23_ParagraphClausesNumberedAndUntitled ==
    (/\ ex_out.outcome = "returned"
     /\ Len(_extract_numbered_clauses(_clean_text(ex_text))) < NumberedMin) =>
        \A i \in DOMAIN ex_out.clauses :
            /\ ex_out.clauses[i].number = <<"P">> \o decimal(i)
            /\ ex_out.clauses[i].title = <<>>

\* C24: evaluate_clause and evaluate_contract never modify the clause records
\* they are given, the risk rule table or the weight matrix: after every call
\* the clause list is what it was before and the engine's tables are what they
\* were after construction.
C24_InputsAndTablesUnchanged ==
    [][/\ clauses' = clauses
       /\ engine' = [ patterns |-> patterns, weights |-> weights ]]_vars

\* evaluate_contract has returned for a document under a contract type the weight
\* matrix has no entry for, with weights looked up for its clauses
C24_Witness ==
    /\ ContractReturned
    /\ contract_type \notin DOMAIN weights
    /\ Len(clauses) = MaxClauses
    /\ DOMAIN last.result.risk_factors # {}
    /\ DOMAIN cache # {}

\* the orders of a list of n elements
Orders(n) == { f \in [ 1..n -> 1..n ] : \A i, j \in 1..n : f[i] = f[j] => i = j }

\* C25: evaluate_contract on a permutation of a clause list (each run starting
\* from an empty cache) returns the same contract_score, contract_level and
\* risk-factor counts, and gives every clause the result it has in the list itself.
C25_PermutationGivesSameResults ==
    (ContractReturned /\ repeat = NoCall) =>
        \A f \in Orders(Len(clauses)) :
            LET st  == contract_loop([ i \in 1..Len(clauses) |-> clauses[f[i]] ],
                                     contract_type, 1, loop_start(EmptyDict))
                avg == average(clauses, st)
            IN  /\ st.outcome = "returned"
                /\ \A i \in 1..Len(clauses) : st.clause_results[i] = last.clause_results[f[i]]
                /\ st.factor_map = last.result.risk_factors
                /\ last.result.contract_score \in round(avg.num, avg.den)
                /\ last.result.contract_level = _risk_level(avg.num, avg.den, "contract")

\* C26: in evaluate_contract the mean, the escalation decision and the contract
\* level are computed only after evaluate_clause has returned for every clause of
\* the list: the step that computes them is taken with all n results at hand, and
\* the verdict is the total of the n scores over n, escalated on the High count
\* over all n.
C26_AggregationAfterAllClauses ==
    [][frame'.pc = "returned" =>
          LET rs    == last'.clause_results
              n     == Len(clauses)
              total == SumScores(rs)
              score == last'.result.contract_score
          IN  /\ Len(frame.st.clause_results) = n
              /\ Len(rs) = n
              /\ \A i \in 1..n :
                    rs[i] = evaluate_clause(clauses[i], contract_type, cache).result
              /\ n > 0 =>
                    IF HighCount(rs) >= 3
                    THEN IF total * 13 > 100 * 100 * 10 * n
                         THEN score = 100 * 100
                         ELSE Nearest(score, total * 13, 10 * n)
                    ELSE Nearest(score, total, n)]_vars

\* the verdict of a three-clause document with three High results is out
C26_Witness ==
    /\ frame.pc = "returned"
    /\ Len(clauses) = MaxClauses
    /\ HighCount(last.clause_results) >= 3
    /\ last.result.contract_level = "High"

\* C27: the result evaluate_clause returns for a clause carries the clause's id
\* as clause_id and the clause's type as clause_type (None and "general" for a
\* record without them), whether computed or read from the cache.
C27_ResultCarriesOwnIdAndType ==
    ClauseReturned =>
        /\ last.result.clause_id = (IF last.clause.id = Absent THEN None ELSE last.clause.id)
        /\ last.result.clause_type
              = (IF last.clause.type = Absent THEN "general" ELSE last.clause.type)

\* the eight stage events of a run in which nothing raises
StageEvents ==
    << "document_processed", "language_normalized", "contract_classified",
       "clauses_extracted", "entities_extracted", "risk_scored", "llm_reasoned",
       "report_generated" >>

\* C28: an analyze_document call that has returned started one audit session and
\* closed it once; if no external collaborator raised, it logged the eight stage
\* events in order, closed the session as completed and returned success True;
\* if a stage raised, its last event is the error event, the session is closed
\* as failed and it returned success False.
C28_RunLogsAllStagesAndCloses ==
    session.returned # "none" =>
        /\ session.started = 1
        /\ Len(session.closed) = 1
        /\ IF session.raised # "collaborator"
           THEN /\ session.events = StageEvents
                /\ session.closed = << "completed" >>
                /\ session.returned = "success"
           ELSE /\ session.events # <<>>
                /\ session.events[Len(session.events)] = "error"
                /\ session.closed = << "failed" >>
                /\ session.returned = "failure"

\* C29: a second analyze_clause call with the same clause text, clause type and
\* contract type, made less than cache_ttl seconds after the first, returns the
\* entry the first call stored, without asking the LLM or running the fallback
\* again and without writing the cache file again.
C29_SecondCallServedFromCache ==
    (/\ reasoner.last.called /\ reasoner.before.called
     /\ reasoner.last.key = reasoner.before.key
     /\ reasoner.last.at - reasoner.before.at < 86400) =>
        /\ reasoner.last.out = reasoner.before.out
        /\ ~reasoner.last.llm
        /\ ~reasoner.last.fallback
        /\ ~reasoner.last.wrote

\* C30: process_document never stores a result of type "error" in the document
\* cache, and never returns one from it: after a failure the next call for the
\* same file content processes the file again.
C30_FailuresAreNotCached ==
    /\ \A h \in DOMAIN processor.files : processor.files[h].type # "error"
    /\ (processor.last.called /\ processor.last.cached) => processor.last.out.type # "error"

=============================================================================
